---- MODULE Spec2Model ----
(***************************************************************************)
(* Value cast dispatcher of ZetaSQL (zetasql/public/cast.cc): the static   *)
(* cast table, CastContext::CastValue with its validated and unvalidated   *)
(* subclasses, and the helpers they call.  Integer widths are scaled down  *)
(* (Bits32, Bits64) so that every value of an integer kind is enumerated.  *)
(***************************************************************************)
EXTENDS Integers, Sequences, FiniteSets, TLC

\* ------------------------------------------------------------------------
\* Bounds of the model
\* ------------------------------------------------------------------------
\* width, in bits, standing for the 32-bit integer kinds
Bits32 == 3
\* width, in bits, standing for the 64-bit integer kinds
Bits64 == 4
\* largest struct arity enumerated
MaxArity == 3
\* largest array length enumerated
MaxElems == 2

RECURSIVE Pow2(_)
Pow2(n) == IF n = 0 THEN 1 ELSE 2 * Pow2(n - 1)

\* ------------------------------------------------------------------------
\* Type kinds and the static cast table
\* ------------------------------------------------------------------------
SimpleKinds ==
    {"BOOL", "INT32", "INT64", "UINT32", "UINT64", "FLOAT", "DOUBLE",
     "STRING", "BYTES", "DATE", "TIMESTAMP", "TIME", "DATETIME",
     "GEOGRAPHY", "NUMERIC", "BIGNUMERIC", "JSON"}

TypeKind == SimpleKinds \cup {"ENUM", "PROTO", "ARRAY", "STRUCT", "EXTENDED"}

CastFunctionType ==
    {"IMPLICIT", "EXPLICIT", "EXPLICIT_OR_LITERAL",
     "EXPLICIT_OR_LITERAL_OR_PARAMETER"}

\* The ADD_TO_MAP lines of InitializeZetaSQLCasts, in source order.
CastMapEntries ==
    <<
       <<"BOOL", "BOOL", "IMPLICIT">>, <<"BOOL", "INT32", "EXPLICIT">>,
       <<"BOOL", "INT64", "EXPLICIT">>, <<"BOOL", "UINT32", "EXPLICIT">>,
       <<"BOOL", "UINT64", "EXPLICIT">>, <<"BOOL", "STRING", "EXPLICIT">>,
       <<"INT32", "BOOL", "EXPLICIT">>, <<"INT32", "INT32", "IMPLICIT">>,
       <<"INT32", "INT64", "IMPLICIT">>, <<"INT32", "UINT32", "EXPLICIT_OR_LITERAL">>,
       <<"INT32", "UINT64", "EXPLICIT_OR_LITERAL">>, <<"INT32", "FLOAT", "EXPLICIT_OR_LITERAL">>,
       <<"INT32", "DOUBLE", "IMPLICIT">>, <<"INT32", "STRING", "EXPLICIT">>,
       <<"INT32", "ENUM", "EXPLICIT_OR_LITERAL_OR_PARAMETER">>, <<"INT32", "NUMERIC", "IMPLICIT">>,
       <<"INT32", "BIGNUMERIC", "IMPLICIT">>, <<"INT64", "BOOL", "EXPLICIT">>,
       <<"INT64", "INT32", "EXPLICIT_OR_LITERAL">>, <<"INT64", "INT64", "IMPLICIT">>,
       <<"INT64", "UINT32", "EXPLICIT_OR_LITERAL">>, <<"INT64", "UINT64", "EXPLICIT_OR_LITERAL">>,
       <<"INT64", "FLOAT", "EXPLICIT_OR_LITERAL">>, <<"INT64", "DOUBLE", "IMPLICIT">>,
       <<"INT64", "STRING", "EXPLICIT">>, <<"INT64", "ENUM", "EXPLICIT_OR_LITERAL_OR_PARAMETER">>,
       <<"INT64", "NUMERIC", "IMPLICIT">>, <<"INT64", "BIGNUMERIC", "IMPLICIT">>,
       <<"UINT32", "BOOL", "EXPLICIT">>, <<"UINT32", "INT32", "EXPLICIT_OR_LITERAL">>,
       <<"UINT32", "INT64", "IMPLICIT">>, <<"UINT32", "UINT32", "IMPLICIT">>,
       <<"UINT32", "UINT64", "IMPLICIT">>, <<"UINT32", "FLOAT", "EXPLICIT_OR_LITERAL">>,
       <<"UINT32", "DOUBLE", "IMPLICIT">>, <<"UINT32", "STRING", "EXPLICIT">>,
       <<"UINT32", "ENUM", "EXPLICIT_OR_LITERAL">>, <<"UINT32", "NUMERIC", "IMPLICIT">>,
       <<"UINT32", "BIGNUMERIC", "IMPLICIT">>, <<"UINT64", "BOOL", "EXPLICIT">>,
       <<"UINT64", "INT32", "EXPLICIT_OR_LITERAL">>, <<"UINT64", "INT64", "EXPLICIT_OR_LITERAL">>,
       <<"UINT64", "UINT32", "EXPLICIT_OR_LITERAL">>, <<"UINT64", "UINT64", "IMPLICIT">>,
       <<"UINT64", "FLOAT", "EXPLICIT_OR_LITERAL">>, <<"UINT64", "DOUBLE", "IMPLICIT">>,
       <<"UINT64", "STRING", "EXPLICIT">>, <<"UINT64", "ENUM", "EXPLICIT_OR_LITERAL">>,
       <<"UINT64", "NUMERIC", "IMPLICIT">>, <<"UINT64", "BIGNUMERIC", "IMPLICIT">>,
       <<"NUMERIC", "INT32", "EXPLICIT">>, <<"NUMERIC", "INT64", "EXPLICIT">>,
       <<"NUMERIC", "UINT32", "EXPLICIT">>, <<"NUMERIC", "UINT64", "EXPLICIT">>,
       <<"NUMERIC", "FLOAT", "EXPLICIT">>, <<"NUMERIC", "DOUBLE", "IMPLICIT">>,
       <<"NUMERIC", "STRING", "EXPLICIT">>, <<"NUMERIC", "NUMERIC", "IMPLICIT">>,
       <<"NUMERIC", "BIGNUMERIC", "IMPLICIT">>, <<"BIGNUMERIC", "INT32", "EXPLICIT">>,
       <<"BIGNUMERIC", "INT64", "EXPLICIT">>, <<"BIGNUMERIC", "UINT32", "EXPLICIT">>,
       <<"BIGNUMERIC", "UINT64", "EXPLICIT">>, <<"BIGNUMERIC", "FLOAT", "EXPLICIT">>,
       <<"BIGNUMERIC", "DOUBLE", "IMPLICIT">>, <<"BIGNUMERIC", "STRING", "EXPLICIT">>,
       <<"BIGNUMERIC", "NUMERIC", "EXPLICIT">>, <<"BIGNUMERIC", "BIGNUMERIC", "IMPLICIT">>,
       <<"FLOAT", "INT32", "EXPLICIT">>, <<"FLOAT", "INT64", "EXPLICIT">>,
       <<"FLOAT", "UINT32", "EXPLICIT">>, <<"FLOAT", "UINT64", "EXPLICIT">>,
       <<"FLOAT", "FLOAT", "IMPLICIT">>, <<"FLOAT", "DOUBLE", "IMPLICIT">>,
       <<"FLOAT", "STRING", "EXPLICIT">>, <<"FLOAT", "NUMERIC", "EXPLICIT">>,
       <<"FLOAT", "BIGNUMERIC", "EXPLICIT">>, <<"DOUBLE", "INT32", "EXPLICIT">>,
       <<"DOUBLE", "INT64", "EXPLICIT">>, <<"DOUBLE", "UINT32", "EXPLICIT">>,
       <<"DOUBLE", "UINT64", "EXPLICIT">>, <<"DOUBLE", "FLOAT", "EXPLICIT_OR_LITERAL">>,
       <<"DOUBLE", "DOUBLE", "IMPLICIT">>, <<"DOUBLE", "STRING", "EXPLICIT">>,
       <<"DOUBLE", "NUMERIC", "EXPLICIT_OR_LITERAL">>, <<"DOUBLE", "BIGNUMERIC", "EXPLICIT_OR_LITERAL">>,
       <<"STRING", "INT32", "EXPLICIT">>, <<"STRING", "INT64", "EXPLICIT">>,
       <<"STRING", "UINT32", "EXPLICIT">>, <<"STRING", "UINT64", "EXPLICIT">>,
       <<"STRING", "FLOAT", "EXPLICIT">>, <<"STRING", "DOUBLE", "EXPLICIT">>,
       <<"STRING", "STRING", "IMPLICIT">>, <<"STRING", "BYTES", "EXPLICIT">>,
       <<"STRING", "DATE", "EXPLICIT_OR_LITERAL_OR_PARAMETER">>, <<"STRING", "TIMESTAMP", "EXPLICIT_OR_LITERAL_OR_PARAMETER">>,
       <<"STRING", "TIME", "EXPLICIT_OR_LITERAL_OR_PARAMETER">>, <<"STRING", "DATETIME", "EXPLICIT_OR_LITERAL_OR_PARAMETER">>,
       <<"STRING", "ENUM", "EXPLICIT_OR_LITERAL_OR_PARAMETER">>, <<"STRING", "PROTO", "EXPLICIT_OR_LITERAL_OR_PARAMETER">>,
       <<"STRING", "BOOL", "EXPLICIT">>, <<"STRING", "NUMERIC", "EXPLICIT">>,
       <<"STRING", "BIGNUMERIC", "EXPLICIT">>, <<"STRING", "JSON", "EXPLICIT">>,
       <<"BYTES", "BYTES", "IMPLICIT">>, <<"BYTES", "STRING", "EXPLICIT">>,
       <<"BYTES", "PROTO", "EXPLICIT_OR_LITERAL_OR_PARAMETER">>, <<"DATE", "DATE", "IMPLICIT">>,
       <<"DATE", "DATETIME", "IMPLICIT">>, <<"DATE", "TIMESTAMP", "EXPLICIT">>,
       <<"DATE", "STRING", "EXPLICIT">>, <<"TIMESTAMP", "DATE", "EXPLICIT">>,
       <<"TIMESTAMP", "DATETIME", "EXPLICIT">>, <<"TIMESTAMP", "TIME", "EXPLICIT">>,
       <<"TIMESTAMP", "TIMESTAMP", "IMPLICIT">>, <<"TIMESTAMP", "STRING", "EXPLICIT">>,
       <<"TIME", "TIME", "IMPLICIT">>, <<"TIME", "STRING", "EXPLICIT">>,
       <<"DATETIME", "DATE", "EXPLICIT">>, <<"DATETIME", "DATETIME", "IMPLICIT">>,
       <<"DATETIME", "STRING", "EXPLICIT">>, <<"DATETIME", "TIME", "EXPLICIT">>,
       <<"DATETIME", "TIMESTAMP", "EXPLICIT">>, <<"GEOGRAPHY", "GEOGRAPHY", "IMPLICIT">>,
       <<"JSON", "JSON", "IMPLICIT">>, <<"JSON", "STRING", "EXPLICIT">>,
       <<"ENUM", "STRING", "EXPLICIT">>, <<"ENUM", "INT32", "EXPLICIT">>,
       <<"ENUM", "INT64", "EXPLICIT">>, <<"ENUM", "UINT32", "EXPLICIT">>,
       <<"ENUM", "UINT64", "EXPLICIT">>, <<"PROTO", "STRING", "EXPLICIT">>,
       <<"PROTO", "BYTES", "EXPLICIT">>, <<"ENUM", "ENUM", "IMPLICIT">>,
       <<"PROTO", "PROTO", "IMPLICIT">>, <<"ARRAY", "ARRAY", "IMPLICIT">>,
       <<"STRUCT", "STRUCT", "IMPLICIT">>
    >>

\* AddToCastMap: zetasql_base::InsertIfNotPresent, so the entry at position
\* i is inserted only if no earlier entry has its (from, to) key.
AddToCastMap(i) ==
    \A j \in 1..(i - 1) :
        <<CastMapEntries[j][1], CastMapEntries[j][2]>>
            # <<CastMapEntries[i][1], CastMapEntries[i][2]>>

InitializeZetaSQLCasts ==
    {CastMapEntries[i] : i \in {k \in 1..Len(CastMapEntries) : AddToCastMap(k)}}

GetZetaSQLCasts == InitializeZetaSQLCasts

\* TypeKindPair keys of the table
CastKeys == {<<e[1], e[2]>> : e \in GetZetaSQLCasts}

\* faulty variant: the key is looked up with its two kinds exchanged
ContainsKey_Swapped(from_kind, to_kind) == <<to_kind, from_kind>> \in CastKeys

\* zetasql_base::ContainsKey(GetZetaSQLCasts(), TypeKindPair(from, to))
ContainsKey(from_kind, to_kind) == <<from_kind, to_kind>> \in CastKeys

\* ------------------------------------------------------------------------
\* Types
\* ------------------------------------------------------------------------
\* A type is a record: kind, name (enum/proto full name or extended type
\* name), def (enum: set of <<name, number>>; proto: descriptor version),
\* fields (struct field types, array element type, map-entry key and value
\* types), map_entry (descriptor()->options().map_entry()).
SimpleType(k) ==
    [kind |-> k, name |-> k, def |-> {}, fields |-> <<>>, map_entry |-> FALSE]

EnumType(name, def) ==
    [kind |-> "ENUM", name |-> name, def |-> def, fields |-> <<>>,
     map_entry |-> FALSE]

ProtoType(name, version) ==
    [kind |-> "PROTO", name |-> name, def |-> {<<version, 0>>},
     fields |-> <<>>, map_entry |-> FALSE]

MapEntryProtoType(name, key_type, value_type) ==
    [kind |-> "PROTO", name |-> name, def |-> {<<<<"m">>, 0>>},
     fields |-> <<key_type, value_type>>, map_entry |-> TRUE]

StructType(field_types) ==
    [kind |-> "STRUCT", name |-> "STRUCT", def |-> {}, fields |-> field_types,
     map_entry |-> FALSE]

ArrayType(element_type) ==
    [kind |-> "ARRAY", name |-> "ARRAY", def |-> {},
     fields |-> <<element_type>>, map_entry |-> FALSE]

ExtendedType(name) ==
    [kind |-> "EXTENDED", name |-> name, def |-> {}, fields |-> <<>>,
     map_entry |-> FALSE]

\* Type::Equals: structural equality.
Equals(a, b) == a = b

\* Type::Equivalent: enums and protos are equivalent when their full names
\* agree; arrays and structs when their components are equivalent.
RECURSIVE Equivalent(_, _)
Equivalent(a, b) ==
    IF a.kind # b.kind THEN FALSE
    ELSE IF a.kind \in {"ENUM", "PROTO"} THEN a.name = b.name
    ELSE IF a.kind \in {"ARRAY", "STRUCT"}
         THEN /\ Len(a.fields) = Len(b.fields)
              /\ \A i \in 1..Len(a.fields) : Equivalent(a.fields[i], b.fields[i])
    ELSE a = b

IsSimpleType(t) == t.kind \in SimpleKinds
IsExtendedType(t) == t.kind = "EXTENDED"
IsStruct(t) == t.kind = "STRUCT"
IsProto(t) == t.kind = "PROTO"
num_fields(t) == Len(t.fields)
element_type(t) == t.fields[1]

\* The types enumerated by the model ---------------------------------------
Int32T == SimpleType("INT32")
Int64T == SimpleType("INT64")
Uint32T == SimpleType("UINT32")
Uint64T == SimpleType("UINT64")
BoolT == SimpleType("BOOL")
StringT == SimpleType("STRING")
BytesT == SimpleType("BYTES")
DateT == SimpleType("DATE")

EnumE == EnumType("E", {<< <<"A">>, 0>>, << <<"B">>, 1>>, << <<"N">>, -1>>})
\* another definition of the enum named E: equivalent to EnumE, not equal
EnumE2 == EnumType("E", {<< <<"A">>, 0>>})
EnumF == EnumType("F", {<< <<"X">>, 2>>, << <<"A">>, 0>>})
EnumTypes == {EnumE, EnumE2, EnumF}

ProtoP == ProtoType("P", <<"1">>)
\* another descriptor of the message named P: equivalent, not equal
ProtoP2 == ProtoType("P", <<"2">>)
ProtoQ == ProtoType("Q", <<"1">>)
MapEntryM == MapEntryProtoType("M", Int32T, StringT)
MapEntryN == MapEntryProtoType("N", StringT, Int32T)
ProtoTypes == {ProtoP, ProtoP2, ProtoQ, MapEntryM, MapEntryN}

ExtX == ExtendedType("X")
ExtY == ExtendedType("Y")
ExtendedTypes == {ExtX, ExtY}

\* Field types of the three struct shapes enumerated, by field position.
PatternField(p, i) ==
    CASE p = "a" -> <<Int64T, StringT, Int32T>>[((i - 1) % 3) + 1]
      [] p = "b" -> <<Int32T, Int32T, BoolT>>[((i - 1) % 3) + 1]
      [] OTHER   -> DateT

StructPatterns == {"a", "b", "c"}

StructOf(p, n) == StructType([i \in 1..n |-> PatternField(p, i)])

StructTypes == {StructOf(p, n) : p \in StructPatterns, n \in 1..MaxArity}

ArrayElementTypes == {Int32T, Int64T, DateT, EnumE}

ArrayTypes == {ArrayType(t) : t \in ArrayElementTypes}

SimpleTypes == {SimpleType(k) : k \in SimpleKinds}

AllTypes ==
    SimpleTypes \cup EnumTypes \cup ProtoTypes \cup StructTypes
        \cup ArrayTypes \cup ExtendedTypes

\* ------------------------------------------------------------------------
\* Values
\* ------------------------------------------------------------------------
IntegerKinds == {"INT32", "INT64", "UINT32", "UINT64"}
FloatingKinds == {"FLOAT", "DOUBLE"}
DecimalKinds == {"NUMERIC", "BIGNUMERIC"}
TemporalKinds == {"DATE", "TIMESTAMP", "TIME", "DATETIME"}

\* std::numeric_limits<T>::min() / max() of the numeric kinds (scaled).
MinOf(k) ==
    CASE k = "INT32"      -> 0 - Pow2(Bits32 - 1)
      [] k = "INT64"      -> 0 - Pow2(Bits64 - 1)
      [] k = "UINT32"     -> 0
      [] k = "UINT64"     -> 0
      [] k = "BOOL"       -> 0
      [] k = "NUMERIC"    -> 0 - Pow2(Bits64 + 1)
      [] k = "FLOAT"      -> 0 - Pow2(Bits64 + 2)
      [] k = "BIGNUMERIC" -> 0 - (Pow2(Bits64 + 2) + Pow2(Bits64 + 1))
      [] OTHER            -> 0 - Pow2(Bits64 + 3)

MaxOf(k) ==
    CASE k = "INT32"      -> Pow2(Bits32 - 1) - 1
      [] k = "INT64"      -> Pow2(Bits64 - 1) - 1
      [] k = "UINT32"     -> Pow2(Bits32) - 1
      [] k = "UINT64"     -> Pow2(Bits64) - 1
      [] k = "BOOL"       -> 1
      [] k = "NUMERIC"    -> Pow2(Bits64 + 1)
      [] k = "FLOAT"      -> Pow2(Bits64 + 2)
      [] k = "BIGNUMERIC" -> Pow2(Bits64 + 2) + Pow2(Bits64 + 1)
      [] OTHER            -> Pow2(Bits64 + 3)

InRange(k, n) == MinOf(k) <= n /\ n <= MaxOf(k)

\* A value is a record: type, is_null, valid (Value::is_valid) and payload.
\* Payload by kind: integer kinds, NUMERIC, BIGNUMERIC and ENUM an integer;
\* BOOL a boolean; FLOAT and DOUBLE [nan, n]; STRING and BYTES a sequence of
\* characters; the temporal kinds, GEOGRAPHY and extended types a token;
\* JSON [validated, text]; PROTO the serialized bytes; STRUCT the sequence of
\* field values; ARRAY the sequence of elements.
MakeValue(t, v) ==
    [type |-> t, is_null |-> FALSE, valid |-> TRUE, payload |-> v]

NullPayload(t) ==
    CASE t.kind \in IntegerKinds \cup DecimalKinds \cup {"ENUM"} -> 0
      [] t.kind = "BOOL" -> FALSE
      [] t.kind \in FloatingKinds -> [nan |-> FALSE, n |-> 0]
      [] t.kind \in TemporalKinds \cup {"GEOGRAPHY", "EXTENDED"} -> "null"
      [] t.kind = "JSON" -> [validated |-> FALSE, text |-> <<>>]
      [] OTHER -> <<>>

\* Value::Null(type)
Null(t) ==
    [type |-> t, is_null |-> TRUE, valid |-> TRUE, payload |-> NullPayload(t)]

\* An invalid Value (default constructed, or a failed Value::Enum).
InvalidValue(t) ==
    [type |-> t, is_null |-> FALSE, valid |-> FALSE,
     payload |-> NullPayload(t)]

\* Equality of two values, the types compared first.
SameValue(a, b) ==
    /\ a.type = b.type
    /\ a.is_null = b.is_null
    /\ a.valid = b.valid
    /\ a.payload = b.payload

Float(n) == [nan |-> FALSE, n |-> n]
NaN == [nan |-> TRUE, n |-> 0]

\* ------------------------------------------------------------------------
\* Strings: sequences of one-character strings
\* ------------------------------------------------------------------------
Digits == <<"0", "1", "2", "3", "4", "5", "6", "7", "8", "9">>

DigitChar(d) == Digits[d + 1]

IsDigit(c) == \E d \in 0..9 : Digits[d + 1] = c

DigitValue(c) == CHOOSE d \in 0..9 : Digits[d + 1] = c

\* decimal rendering of a natural number
RECURSIVE NatToString(_)
NatToString(n) ==
    IF n < 10 THEN <<DigitChar(n)>>
    ELSE NatToString(n \div 10) \o <<DigitChar(n % 10)>>

IntToString(n) == IF n < 0 THEN <<"-">> \o NatToString(0 - n) ELSE NatToString(n)

\* value of a non-empty sequence of digits
RECURSIVE DigitsToNat(_)
DigitsToNat(s) ==
    IF Len(s) = 0 THEN 0
    ELSE 10 * DigitsToNat(SubSeq(s, 1, Len(s) - 1)) + DigitValue(s[Len(s)])

AllDigits(s) == Len(s) > 0 /\ \A i \in 1..Len(s) : IsDigit(s[i])

\* an optional sign followed by digits
IsDecimal(s) ==
    \/ AllDigits(s)
    \/ Len(s) > 1 /\ s[1] \in {"-", "+"} /\ AllDigits(Tail(s))

DecimalValue(s) ==
    IF s[1] = "-" THEN 0 - DigitsToNat(Tail(s))
    ELSE IF s[1] = "+" THEN DigitsToNat(Tail(s))
    ELSE DigitsToNat(s)

TrueString == <<"t", "r", "u", "e">>
FalseString == <<"f", "a", "l", "s", "e">>
NanString == <<"n", "a", "n">>

\* ------------------------------------------------------------------------
\* Statuses and results
\* ------------------------------------------------------------------------
StatusCodes ==
    {"OK", "SQL_ERROR", "EVAL_ERROR", "FAILED_PRECONDITION", "UNIMPLEMENTED",
     "INTERNAL", "NOT_FOUND", "INVALID_ARGUMENT", "FATAL"}

\* An error message: its fixed text and the number or string it quotes.
Msg(text, num, str) == [text |-> text, num |-> num, str |-> str]

NoMsg == Msg("", 0, <<>>)

NoValue == InvalidValue(SimpleType("INT32"))

\* One conversion primitive invoked by a cast, with the precision passed
\* to it ("none" when it takes none).
Conv(fn, scale) == [fn |-> fn, scale |-> scale]

\* StatusOr<Value> together with the conversions invoked to produce it.
Ok(val, conv) == [st |-> "OK", val |-> val, msg |-> NoMsg, conv |-> conv]

Error(code, msg, conv) == [st |-> code, val |-> NoValue, msg |-> msg, conv |-> conv]

\* MakeSqlError(): a static error; MakeEvalError(): a dynamic one
\* (OUT_OF_RANGE).
MakeSqlError(msg) == Error("SQL_ERROR", msg, <<>>)
MakeEvalError(msg, conv) == Error("EVAL_ERROR", msg, conv)

\* ------------------------------------------------------------------------
\* Conversion primitives of the function library (functions::Convert,
\* NumericToString, StringToNumeric, date/time conversions)
\* ------------------------------------------------------------------------
kConvertOverflowInt32 == "int32 out of range: "
kConvertOverflowInt64 == "int64 out of range: "
kConvertOverflowUint32 == "uint32 out of range: "
kConvertOverflowUint64 == "uint64 out of range: "
kConvertOverflowFloat == "float out of range: "
kConvertNonFinite ==
    "Illegal conversion of non-finite floating point number to an integer: "

OverflowText(k) ==
    CASE k = "INT32"  -> kConvertOverflowInt32
      [] k = "INT64"  -> kConvertOverflowInt64
      [] k = "UINT32" -> kConvertOverflowUint32
      [] k = "UINT64" -> kConvertOverflowUint64
      [] k = "FLOAT"  -> kConvertOverflowFloat
      [] OTHER        -> "numeric out of range: "

BitsOf(k) == IF k \in {"INT32", "UINT32"} THEN Bits32 ELSE Bits64

\* what static_cast to an integer kind makes of n: n modulo 2^w
Wrap(k, n) == ((n - MinOf(k)) % Pow2(BitsOf(k))) + MinOf(k)

\* payload of a numeric kind as [nan, n], and back
ToNum(k, p) ==
    IF k = "BOOL" THEN Float(IF p THEN 1 ELSE 0)
    ELSE IF k \in FloatingKinds THEN p
    ELSE Float(p)

FromNum(k, x) ==
    IF k = "BOOL" THEN x.n # 0
    ELSE IF k \in FloatingKinds THEN x
    ELSE x.n

\* functions::Convert<FromType, ToType>(in, &out, &status): the value is
\* kept when the target can represent it, and status is an out-of-range
\* error otherwise (out is then whatever a plain static_cast would give).
Convert(fk, tk, in) ==
    LET x == ToNum(fk, in) IN
    IF tk = "BOOL" THEN [ok |-> TRUE, out |-> (x.n # 0), msg |-> NoMsg]
    ELSE IF x.nan
    THEN IF tk \in FloatingKinds
         THEN [ok |-> TRUE, out |-> NaN, msg |-> NoMsg]
         ELSE [ok |-> FALSE, out |-> 0,
               msg |-> Msg(IF tk \in IntegerKinds THEN kConvertNonFinite
                           ELSE OverflowText(tk), 0, NanString)]
    ELSE IF InRange(tk, x.n)
    THEN [ok |-> TRUE, out |-> FromNum(tk, x), msg |-> NoMsg]
    ELSE [ok |-> FALSE,
          out |-> IF tk \in IntegerKinds THEN Wrap(tk, x.n)
                  ELSE FromNum(tk, Float(0)),
          msg |-> Msg(OverflowText(tk), x.n, <<>>)]

\* functions::NumericToString<T>(value, &str, &error)
LibNumericToString(k, p) ==
    LET x == ToNum(k, p) IN
    IF k = "BOOL" THEN (IF p THEN TrueString ELSE FalseString)
    ELSE IF x.nan THEN NanString
    ELSE IntToString(x.n)

\* functions::StringToNumeric<T>(value, &out, &error)
LibStringToNumeric(k, s) ==
    IF k = "BOOL"
    THEN IF s = TrueString THEN [ok |-> TRUE, out |-> TRUE]
         ELSE IF s = FalseString THEN [ok |-> TRUE, out |-> FALSE]
         ELSE [ok |-> FALSE, out |-> FALSE]
    ELSE IF k \in FloatingKinds /\ s = NanString
    THEN [ok |-> TRUE, out |-> NaN]
    ELSE IF IsDecimal(s) /\ InRange(k, DecimalValue(s))
    THEN [ok |-> TRUE, out |-> FromNum(k, Float(DecimalValue(s)))]
    ELSE [ok |-> FALSE, out |-> FromNum(k, Float(0))]

\* Text forms of the temporal kinds: one tag character per kind.
TemporalTag(k) ==
    CASE k = "DATE" -> "D"
      [] k = "TIMESTAMP" -> "S"
      [] k = "TIME" -> "T"
      [] OTHER -> "M"

\* functions::ConvertStringToDate / ...ToTimestamp / ...ToTime / ...ToDatetime
LibStringToTemporal(k, s) == s = <<TemporalTag(k)>>

\* a temporal value converts unless it lies at the edge of its range
LibTemporalConverts(p) == p = "ok"

\* IsWellFormedUTF8
IsWellFormedUTF8(s) == \A i \in 1..Len(s) : s[i] # "!"

\* JSONValue::ParseJSONString
LibParsesAsJSON(s) == Len(s) > 0 /\ s[1] = "{"

\* functions::StringToProto: text format parse; "p..." parses, and "q..."
\* parses to a message that lacks a required field.
LibStringToProto(s) == Len(s) > 0 /\ s[1] \in {"p", "q"}
LibSerializes(s) == Len(s) > 0 /\ s[1] = "p"

\* Message::ParsePartialFromString
LibParsePartial(bytes) == \A i \in 1..Len(bytes) : bytes[i] # "!"

\* Value::Enum(enum_type, number): valid only for a number the enum defines
EnumByNumber(t, n) ==
    IF \E e \in t.def : e[2] = n THEN MakeValue(t, n) ELSE InvalidValue(t)

\* Value::Enum(enum_type, name): valid only for a name the enum defines
EnumByName(t, s) ==
    IF \E e \in t.def : e[1] = s
    THEN MakeValue(t, (CHOOSE e \in t.def : e[1] = s)[2])
    ELSE InvalidValue(t)

\* Value::enum_name()
enum_name(v) == (CHOOSE e \in v.type.def : e[2] = v.payload)[1]

\* ------------------------------------------------------------------------
\* Language options, catalog and extended conversions
\* ------------------------------------------------------------------------
LanguageFeatures ==
    {"FEATURE_V_1_3_PROTO_MAPS", "FEATURE_TIMESTAMP_NANOS",
     "FEATURE_JSON_NO_VALIDATION"}

LanguageFeatureEnabled(lang, feature) == feature \in lang

\* faulty variant: the language options are not consulted
GetTimestampScale_AlwaysMicroseconds(lang) == "kMicroseconds"

GetTimestampScale(lang) ==
    IF LanguageFeatureEnabled(lang, "FEATURE_TIMESTAMP_NANOS")
    THEN "kNanoseconds"
    ELSE "kMicroseconds"

\* A user conversion function: "fn_ok" converts every value, "fn_err" fails
\* on every value; NullFunction is the null Function pointer.
NullFunction == "nullptr"
UserFunctions == {"fn_ok", "fn_err"}

\* the value a successful user conversion makes of v
ConvertedValue(v, to) ==
    IF v.is_null THEN Null(to)
    ELSE CASE to.kind \in IntegerKinds -> MakeValue(to, 1)
           [] to.kind = "EXTENDED" -> MakeValue(to, "made")
           [] to.kind = "STRING" -> MakeValue(to, <<"x">>)
           [] OTHER -> Null(to)

\* the evaluator a Function's evaluator factory returns, applied to {v}
EvaluateFunction(fn, v, to) ==
    IF fn = "fn_ok"
    THEN Ok(ConvertedValue(v, to), <<Conv(fn, "none")>>)
    ELSE Error("EVAL_ERROR", Msg("conversion failed", 0, <<>>),
               <<Conv(fn, "none")>>)

\* the null Type pointer
NullType ==
    [kind |-> "nullptr", name |-> "nullptr", def |-> {}, fields |-> <<>>,
     map_entry |-> FALSE]

\* ConversionEvaluator: (from_type, to_type, function); invalid when default
\* constructed (Conversion::Invalid()).
InvalidEvaluator ==
    [valid |-> FALSE, from_type |-> SimpleType("INT32"),
     to_type |-> SimpleType("INT32"), function |-> NullFunction]

\* ConversionEvaluator::Create: ZETASQL_RET_CHECK of its three arguments and
\* of the two types being different.
ConversionEvaluatorCreate(from_type, to_type, function) ==
    IF \/ from_type = NullType
       \/ to_type = NullType
       \/ function = NullFunction
       \/ Equals(from_type, to_type)
    THEN [ok |-> FALSE, evaluator |-> InvalidEvaluator]
    ELSE [ok |-> TRUE,
          evaluator |-> [valid |-> TRUE, from_type |-> from_type,
                         to_type |-> to_type, function |-> function]]

\* faulty variant: the type of the value is looked at before the validity
ConversionEvaluatorEval_TypeFirst(evaluator, from_value) ==
    IF ~Equals(evaluator.from_type, from_value.type)
    THEN Error("INVALID_ARGUMENT",
               Msg("Type of casted value doesn't match the source type of conversion",
                   0, <<>>), <<>>)
    ELSE IF ~evaluator.valid
    THEN Error("FAILED_PRECONDITION",
               Msg("Attempt to cast a value using invalid conversion", 0, <<>>),
               <<>>)
    ELSE EvaluateFunction(evaluator.function, from_value, evaluator.to_type)

\* ConversionEvaluator::Eval
ConversionEvaluatorEval(evaluator, from_value) ==
    IF ~evaluator.valid
    THEN Error("FAILED_PRECONDITION",
               Msg("Attempt to cast a value using invalid conversion", 0, <<>>),
               <<>>)
    ELSE IF ~Equals(evaluator.from_type, from_value.type)
    THEN Error("INVALID_ARGUMENT",
               Msg("Type of casted value doesn't match the source type of conversion",
                   0, <<>>), <<>>)
    ELSE EvaluateFunction(evaluator.function, from_value, evaluator.to_type)

\* A Conversion: an evaluator and the CastFunctionProperty it was made with.
MakeConversion(evaluator, property) ==
    [evaluator |-> evaluator, property |-> property]

\* Conversion::Create(evaluator, property): ZETASQL_RET_CHECK of the
\* evaluator being valid
ConversionCreateFromEvaluator(evaluator, property) ==
    IF ~evaluator.valid
    THEN [ok |-> FALSE, conversion |-> MakeConversion(InvalidEvaluator, property)]
    ELSE [ok |-> TRUE, conversion |-> MakeConversion(evaluator, property)]

\* Conversion::Create(from_type, to_type, function, property)
ConversionCreate(from_type, to_type, function, property) ==
    LET created == ConversionEvaluatorCreate(from_type, to_type, function) IN
    IF ~created.ok
    THEN [ok |-> FALSE, conversion |-> MakeConversion(InvalidEvaluator, property)]
    ELSE ConversionCreateFromEvaluator(created.evaluator, property)

\* Catalog::ConversionSourceExpressionKind
ConversionSourceExpressionKind == {"kOther", "kLiteral", "kParameter"}

\* Catalog::FindConversionOptions(is_explicit, source_kind)
FindConversionOptions(is_explicit, source_kind) ==
    [is_explicit |-> is_explicit, source_kind |-> source_kind]

\* CastFunctionProperty::is_implicit()
is_implicit(property) == property = "IMPLICIT"

\* faulty variant: a literal-only conversion is matched for a parameter too
IsMatch_ParameterAsLiteral(conversion, options) ==
    IF ~conversion.evaluator.valid THEN FALSE
    ELSE IF options.is_explicit THEN TRUE
    ELSE IF is_implicit(conversion.property) THEN TRUE
    ELSE CASE options.source_kind = "kLiteral"
                -> \/ conversion.property = "EXPLICIT_OR_LITERAL"
                   \/ conversion.property = "EXPLICIT_OR_LITERAL_OR_PARAMETER"
           [] options.source_kind = "kParameter"
                -> \/ conversion.property = "EXPLICIT_OR_LITERAL"
                   \/ conversion.property = "EXPLICIT_OR_LITERAL_OR_PARAMETER"
           [] OTHER -> FALSE

\* Conversion::IsMatch(options)
IsMatch(conversion, options) ==
    IF ~conversion.evaluator.valid THEN FALSE
    ELSE IF options.is_explicit THEN TRUE
    ELSE IF is_implicit(conversion.property) THEN TRUE
    ELSE CASE options.source_kind = "kLiteral"
                -> \/ conversion.property = "EXPLICIT_OR_LITERAL"
                   \/ conversion.property = "EXPLICIT_OR_LITERAL_OR_PARAMETER"
           [] options.source_kind = "kParameter"
                -> conversion.property = "EXPLICIT_OR_LITERAL_OR_PARAMETER"
           [] OTHER -> FALSE

\* A catalog: the set of conversions registered in it, each a record
\* [from, to, fn].  NoCatalog is the null Catalog pointer.
NoCatalog == [present |-> FALSE, conversions |-> {}]

MakeCatalog(conversions) == [present |-> TRUE, conversions |-> conversions]

Registered(from, to, fn) == [from |-> from, to |-> to, fn |-> fn]

\* Catalog::FindConversion(from_type, to_type, options, &conversion): the
\* conversion registered for exactly (from_type, to_type), or a not-found
\* status that leaves *conversion untouched.
FindConversion(catalog, from_type, to_type) ==
    IF \E c \in catalog.conversions : c.from = from_type /\ c.to = to_type
    THEN LET c == CHOOSE c \in catalog.conversions :
                      c.from = from_type /\ c.to = to_type
         IN [st |-> "OK",
             evaluator |-> ConversionEvaluatorCreate(c.from, c.to, c.fn).evaluator]
    ELSE [st |-> "NOT_FOUND", evaluator |-> InvalidEvaluator]

\* Coercer::CoercesTo(InputArgumentType(value), to_type, is_explicit = true)
RECURSIVE CoercesTo(_, _, _)
CoercesTo(catalog, from_type, to_type) ==
    IF Equals(from_type, to_type) THEN TRUE
    ELSE IF IsExtendedType(from_type) \/ IsExtendedType(to_type)
    THEN catalog.present /\ FindConversion(catalog, from_type, to_type).st = "OK"
    ELSE IF from_type.kind = "STRUCT" /\ to_type.kind = "STRUCT"
    THEN /\ num_fields(from_type) = num_fields(to_type)
         /\ \A i \in 1..num_fields(from_type) :
                CoercesTo(catalog, from_type.fields[i], to_type.fields[i])
    ELSE IF from_type.kind = "ARRAY" /\ to_type.kind = "ARRAY"
    THEN CoercesTo(catalog, element_type(from_type), element_type(to_type))
    ELSE IF from_type.kind = to_type.kind /\ from_type.kind \in {"ENUM", "PROTO"}
    THEN Equivalent(from_type, to_type)
    ELSE ContainsKey(from_type.kind, to_type.kind)

\* The cast context: which subclass of CastContext, the language options,
\* and the subclass's member (catalog_ or extended_type_conversion_).
WithValidation(lang, catalog) ==
    [validation |-> TRUE, lang |-> lang, catalog |-> catalog,
     function |-> NullFunction]

WithoutValidation(lang, function) ==
    [validation |-> FALSE, lang |-> lang, catalog |-> NoCatalog,
     function |-> function]

UnsupportedCast == Msg("Unsupported cast", 0, <<>>)

OkStatus == Ok(NoValue, <<>>)

\* CastContextWithValidation::ValidateCoercion
ValidateCoercionWithValidation(ctx, from_value, to_type) ==
    IF ~CoercesTo(ctx.catalog, from_value.type, to_type)
    THEN MakeSqlError(UnsupportedCast)
    ELSE OkStatus

\* faulty variant: every coercion is rejected
ValidateCoercionWithoutValidation_Rejects(ctx, from_value, to_type) ==
    MakeSqlError(UnsupportedCast)

\* CastContextWithoutValidation::ValidateCoercion
ValidateCoercionWithoutValidation(ctx, from_value, to_type) == OkStatus

\* virtual CastContext::ValidateCoercion
ValidateCoercion(ctx, from_value, to_type) ==
    IF ctx.validation
    THEN ValidateCoercionWithValidation(ctx, from_value, to_type)
    ELSE ValidateCoercionWithoutValidation(ctx, from_value, to_type)

\* faulty variant: the conversion is looked up for (to_type, from type)
CastWithExtendedTypeWithValidation_Swapped(ctx, from_value, to_type) ==
    IF ~ctx.catalog.present
    THEN Error("FAILED_PRECONDITION",
               Msg("Attempt to cast a Value of extened type without providing a Catalog",
                   0, <<>>), <<>>)
    ELSE LET found == FindConversion(ctx.catalog, to_type, from_value.type) IN
         IF found.st # "OK"
         THEN Error(found.st, Msg("conversion not found", 0, <<>>), <<>>)
         ELSE ConversionEvaluatorEval(found.evaluator, from_value)

\* CastContextWithValidation::CastWithExtendedType
CastWithExtendedTypeWithValidation(ctx, from_value, to_type) ==
    IF ~ctx.catalog.present
    THEN Error("FAILED_PRECONDITION",
               Msg("Attempt to cast a Value of extened type without providing a Catalog",
                   0, <<>>), <<>>)
    ELSE LET found == FindConversion(ctx.catalog, from_value.type, to_type) IN
         IF found.st # "OK"
         THEN Error(found.st, Msg("conversion not found", 0, <<>>), <<>>)
         ELSE ConversionEvaluatorEval(found.evaluator, from_value)

\* faulty variant: the null check of extended_type_conversion_ is missing
CastWithExtendedTypeWithoutValidation_NoNullCheck(ctx, from_value, to_type) ==
    LET created == ConversionEvaluatorCreate(from_value.type, to_type,
                                             ctx.function) IN
    IF ~created.ok
    THEN Error("INTERNAL", Msg("RET_CHECK failure", 0, <<>>), <<>>)
    ELSE ConversionEvaluatorEval(created.evaluator, from_value)

\* CastContextWithoutValidation::CastWithExtendedType
CastWithExtendedTypeWithoutValidation(ctx, from_value, to_type) ==
    IF ctx.function = NullFunction
    THEN Error("FAILED_PRECONDITION",
               Msg("Attempt to cast a Value of extened type without providing an extended conversion function",
                   0, <<>>), <<>>)
    ELSE LET created == ConversionEvaluatorCreate(from_value.type, to_type,
                                                  ctx.function) IN
         IF ~created.ok
         THEN Error("INTERNAL", Msg("RET_CHECK failure", 0, <<>>), <<>>)
         ELSE ConversionEvaluatorEval(created.evaluator, from_value)

\* virtual CastContext::CastWithExtendedType
CastWithExtendedType(ctx, from_value, to_type) ==
    IF ctx.validation
    THEN CastWithExtendedTypeWithValidation(ctx, from_value, to_type)
    ELSE CastWithExtendedTypeWithoutValidation(ctx, from_value, to_type)

\* ------------------------------------------------------------------------
\* Helpers of the dispatcher
\* ------------------------------------------------------------------------
MAX_LITERAL_DISPLAY_LENGTH == 60

\* PrettyTruncateUTF8(s, max_length)
PrettyTruncateUTF8(s, max_length) ==
    IF Len(s) <= max_length THEN s
    ELSE SubSeq(s, 1, max_length - 3) \o <<".", ".", ".">>

\* the offending literal as the parsing functions of the library quote it
\* in their error: cut to the bounded display length
LibErrorLiteral(s) == PrettyTruncateUTF8(s, MAX_LITERAL_DISPLAY_LENGTH)

\* faulty variant: the status of Convert is not looked at
NumericCast_IgnoreStatus(fk, tk, v) ==
    Ok(MakeValue(SimpleType(tk), Convert(fk, tk, v.payload).out),
       <<Conv("Convert", "none")>>)

\* NumericCast<FromType, ToType>(value)
NumericCast(fk, tk, v) ==
    LET c == Convert(fk, tk, v.payload) IN
    IF c.ok
    THEN Ok(MakeValue(SimpleType(tk), c.out), <<Conv("Convert", "none")>>)
    ELSE MakeEvalError(c.msg, <<Conv("Convert", "none")>>)

\* NumericValueCast<FromType, ToType>(in)
NumericValueCast(fk, tk, in) ==
    LET c == Convert(fk, tk, in) IN
    IF c.ok
    THEN Ok(MakeValue(SimpleType(tk), c.out), <<Conv("Convert", "none")>>)
    ELSE MakeEvalError(c.msg, <<Conv("Convert", "none")>>)

\* faulty variant: the signed integer cases instantiate the unsigned
\* template, so the value is printed as its unsigned reading
NumericToString_Unsigned(k, v) ==
    IF v.is_null THEN Ok(Null(StringT), <<>>)
    ELSE Ok(MakeValue(StringT,
                      LibNumericToString(k, IF k \in IntegerKinds
                                            THEN v.payload % Pow2(BitsOf(k))
                                            ELSE v.payload)),
            <<Conv("NumericToString", "none")>>)

\* NumericToString<T>(v)
NumericToString(k, v) ==
    IF v.is_null THEN Ok(Null(StringT), <<>>)
    ELSE Ok(MakeValue(StringT, LibNumericToString(k, v.payload)),
            <<Conv("NumericToString", "none")>>)

\* StringToNumeric<T>(v)
StringToNumeric(k, v) ==
    IF v.is_null THEN Ok(Null(SimpleType(k)), <<>>)
    ELSE LET parsed == LibStringToNumeric(k, v.payload) IN
         IF parsed.ok
         THEN Ok(MakeValue(SimpleType(k), parsed.out),
                 <<Conv("StringToNumeric", "none")>>)
         ELSE MakeEvalError(Msg("Bad value", 0, LibErrorLiteral(v.payload)),
                            <<Conv("StringToNumeric", "none")>>)

\* IsMapEntryCast(from, to)
IsMapEntryCast(from, to) ==
    /\ IsStruct(from)
    /\ num_fields(from) = 2
    /\ IsProto(to)
    /\ to.map_entry

\* Value::ToInt64() of an INT32, INT64 or UINT32 value
ToInt64(v) == v.payload

\* static_cast<int64_t>(v.uint64_value())
Uint64AsInt64(v) == Wrap("INT64", v.payload)

\* case FCT(TYPE_INT32, TYPE_ENUM), FCT(TYPE_INT64, TYPE_ENUM),
\* FCT(TYPE_UINT32, TYPE_ENUM)
IntToEnum(v, to_type) ==
    LET to_value == EnumByNumber(to_type, ToInt64(v)) IN
    IF ~to_value.valid
    THEN MakeEvalError(Msg("Out of range cast of integer", ToInt64(v), <<>>),
                       <<Conv("Value::Enum", "none")>>)
    ELSE Ok(to_value, <<Conv("Value::Enum", "none")>>)

\* case FCT(TYPE_UINT64, TYPE_ENUM)
Uint64ToEnum(v, to_type) ==
    LET to_value == EnumByNumber(to_type, Uint64AsInt64(v)) IN
    IF ~to_value.valid
    THEN MakeEvalError(Msg("Out of range cast of integer", v.payload, <<>>),
                       <<Conv("Value::Enum", "none")>>)
    ELSE Ok(to_value, <<Conv("Value::Enum", "none")>>)

\* case FCT(TYPE_STRING, TYPE_ENUM)
StringToEnum(v, to_type) ==
    LET to_value == EnumByName(to_type, v.payload) IN
    IF ~to_value.valid
    THEN MakeEvalError(Msg("Out of range cast of string", 0, v.payload),
                       <<Conv("Value::Enum", "none")>>)
    ELSE Ok(to_value, <<Conv("Value::Enum", "none")>>)

\* faulty variant: the two enum types are not required to be equivalent
EnumToEnum_NoEquivalenceCheck(v, to_type) ==
    LET to_value == EnumByNumber(to_type, v.payload) IN
    IF ~to_value.valid
    THEN MakeEvalError(Msg("Out of range enum value", v.payload, <<>>),
                       <<Conv("Value::Enum", "none")>>)
    ELSE Ok(to_value, <<Conv("Value::Enum", "none")>>)

\* case FCT(TYPE_ENUM, TYPE_ENUM)
EnumToEnum(v, to_type) ==
    IF ~Equivalent(v.type, to_type)
    THEN MakeSqlError(Msg("Invalid enum cast", 0, <<>>))
    ELSE LET to_value == EnumByNumber(to_type, v.payload) IN
         IF ~to_value.valid
         THEN MakeEvalError(Msg("Out of range enum value", v.payload, <<>>),
                            <<Conv("Value::Enum", "none")>>)
         ELSE Ok(to_value, <<Conv("Value::Enum", "none")>>)

\* faulty variant: the value is returned with the type it came with
ProtoToProto_KeepType(v, to_type) ==
    IF ~Equivalent(v.type, to_type)
    THEN MakeSqlError(Msg("Invalid proto cast", 0, <<>>))
    ELSE Ok(v, <<>>)

\* case FCT(TYPE_PROTO, TYPE_PROTO)
ProtoToProto(v, to_type) ==
    IF ~Equivalent(v.type, to_type)
    THEN MakeSqlError(Msg("Invalid proto cast", 0, <<>>))
    ELSE Ok(MakeValue(to_type, v.payload), <<>>)

\* cases FCT(TYPE_ENUM, TYPE_INT32) .. FCT(TYPE_ENUM, TYPE_UINT64)
EnumToInt(v, tk) ==
    IF tk = "INT32" THEN Ok(MakeValue(Int32T, v.payload), <<>>)
    ELSE NumericValueCast("INT32", tk, v.payload)

\* The precision each temporal case passes to the library ("none" when the
\* library function called takes no precision).
TemporalScale(lang, fk, tk) ==
    CASE <<fk, tk>> \in {<<"STRING", "TIMESTAMP">>, <<"TIMESTAMP", "STRING">>}
           -> IF LanguageFeatureEnabled(lang, "FEATURE_TIMESTAMP_NANOS")
              THEN "kNanoseconds" ELSE "kMicroseconds"
      [] <<fk, tk>> \in {<<"DATE", "TIMESTAMP">>, <<"TIMESTAMP", "DATE">>}
           -> "kMicroseconds"
      [] <<fk, tk>> \in {<<"STRING", "TIME">>, <<"TIME", "STRING">>,
                         <<"STRING", "DATETIME">>, <<"DATETIME", "STRING">>}
           -> GetTimestampScale(lang)
      [] OTHER -> "none"

\* faulty variant: the switch has no case for TIMESTAMP to TIME
TemporalCases_NoTimestampToTime ==
    {<<"STRING", "DATE">>, <<"STRING", "TIMESTAMP">>, <<"TIMESTAMP", "STRING">>,
     <<"DATE", "TIMESTAMP">>, <<"TIMESTAMP", "DATE">>, <<"DATE", "STRING">>,
     <<"STRING", "TIME">>, <<"TIME", "STRING">>,
     <<"STRING", "DATETIME">>, <<"DATETIME", "STRING">>,
     <<"DATETIME", "TIMESTAMP">>, <<"TIMESTAMP", "DATETIME">>,
     <<"DATETIME", "DATE">>, <<"DATE", "DATETIME">>, <<"DATETIME", "TIME">>}

\* the temporal case labels of the switch
TemporalCases ==
    {<<"STRING", "DATE">>, <<"STRING", "TIMESTAMP">>, <<"TIMESTAMP", "STRING">>,
     <<"DATE", "TIMESTAMP">>, <<"TIMESTAMP", "DATE">>, <<"DATE", "STRING">>,
     <<"STRING", "TIME">>, <<"TIME", "STRING">>, <<"TIMESTAMP", "TIME">>,
     <<"STRING", "DATETIME">>, <<"DATETIME", "STRING">>,
     <<"DATETIME", "TIMESTAMP">>, <<"TIMESTAMP", "DATETIME">>,
     <<"DATETIME", "DATE">>, <<"DATE", "DATETIME">>, <<"DATETIME", "TIME">>}

\* the temporal cases of the switch
TemporalCast(ctx, v, to_type) ==
    LET fk == v.type.kind
        tk == to_type.kind
        conv == <<Conv("Convert" \o fk \o "To" \o tk,
                       TemporalScale(ctx.lang, fk, tk))>>
        failed == MakeEvalError(Msg("Invalid temporal value", 0, <<>>), conv)
    IN  IF fk = "STRING"
        THEN IF LibStringToTemporal(tk, v.payload)
             THEN Ok(MakeValue(to_type, "ok"), conv)
             ELSE MakeEvalError(Msg("Invalid temporal value", 0,
                                    LibErrorLiteral(v.payload)), conv)
        ELSE IF fk = "DATE" /\ tk = "DATETIME"
        THEN Ok(MakeValue(to_type, v.payload), conv)
        ELSE IF ~LibTemporalConverts(v.payload) THEN failed
        ELSE IF tk = "STRING"
        THEN Ok(MakeValue(to_type, <<TemporalTag(fk)>>), conv)
        ELSE Ok(MakeValue(to_type, "ok"), conv)

\* case FCT(TYPE_STRING, TYPE_JSON)
StringToJson(ctx, v) ==
    IF LanguageFeatureEnabled(ctx.lang, "FEATURE_JSON_NO_VALIDATION")
    THEN Ok(MakeValue(SimpleType("JSON"),
                      [validated |-> FALSE, text |-> v.payload]), <<>>)
    ELSE IF ~LibParsesAsJSON(v.payload)
    THEN MakeEvalError(Msg("JSON parse error", 0, <<>>),
                       <<Conv("ParseJSONString", "none")>>)
    ELSE Ok(MakeValue(SimpleType("JSON"),
                      [validated |-> TRUE, text |-> v.payload]),
            <<Conv("ParseJSONString", "none")>>)

\* case FCT(TYPE_STRING, TYPE_PROTO)
StringToProto(v, to_type) ==
    IF ~LibStringToProto(v.payload)
    THEN MakeEvalError(Msg("Error parsing proto", 0,
                           LibErrorLiteral(v.payload)),
                       <<Conv("StringToProto", "none")>>)
    ELSE IF ~LibSerializes(v.payload)
    THEN MakeEvalError(Msg("Invalid cast to type from string", 0,
                           PrettyTruncateUTF8(v.payload,
                                              MAX_LITERAL_DISPLAY_LENGTH)),
                       <<Conv("StringToProto", "none")>>)
    ELSE Ok(MakeValue(to_type, v.payload), <<Conv("StringToProto", "none")>>)

\* case FCT(TYPE_PROTO, TYPE_STRING)
ProtoToString(v) ==
    IF ~LibParsePartial(v.payload)
    THEN MakeEvalError(Msg("Invalid cast to string from type", 0,
                           PrettyTruncateUTF8(v.payload,
                                              MAX_LITERAL_DISPLAY_LENGTH)),
                       <<Conv("ProtoToString", "none")>>)
    ELSE Ok(MakeValue(StringT, v.payload), <<Conv("ProtoToString", "none")>>)

\* case FCT(TYPE_BYTES, TYPE_STRING)
BytesToString(v) ==
    IF ~IsWellFormedUTF8(v.payload)
    THEN MakeEvalError(Msg("Invalid cast of bytes to UTF8 string", 0, <<>>), <<>>)
    ELSE Ok(MakeValue(StringT, v.payload), <<>>)

\* ------------------------------------------------------------------------
\* The case labels of the switch in CastContext::CastValue
\* ------------------------------------------------------------------------
NumericCastCases ==
    ({"INT32"} \X {"INT64", "UINT32", "UINT64", "BOOL", "FLOAT", "DOUBLE",
                   "NUMERIC", "BIGNUMERIC"})
    \cup ({"UINT32"} \X {"INT32", "INT64", "UINT64", "BOOL", "FLOAT", "DOUBLE",
                         "NUMERIC", "BIGNUMERIC"})
    \cup ({"INT64"} \X {"INT32", "UINT32", "UINT64", "BOOL", "FLOAT", "DOUBLE",
                        "NUMERIC", "BIGNUMERIC"})
    \cup ({"UINT64"} \X {"INT32", "INT64", "UINT32", "BOOL", "FLOAT", "DOUBLE",
                         "NUMERIC", "BIGNUMERIC"})
    \cup ({"BOOL"} \X {"INT32", "INT64", "UINT32", "UINT64"})
    \cup ({"FLOAT"} \X {"INT32", "INT64", "UINT32", "UINT64", "DOUBLE",
                        "NUMERIC", "BIGNUMERIC"})
    \cup ({"DOUBLE"} \X {"INT32", "INT64", "UINT32", "UINT64", "FLOAT",
                         "NUMERIC", "BIGNUMERIC"})
    \cup ({"NUMERIC"} \X {"INT32", "INT64", "UINT32", "UINT64", "FLOAT",
                          "DOUBLE", "BIGNUMERIC"})
    \cup ({"BIGNUMERIC"} \X {"INT32", "INT64", "UINT32", "UINT64", "FLOAT",
                             "DOUBLE", "NUMERIC"})

NumericToStringCases ==
    {"INT32", "UINT32", "INT64", "UINT64", "BOOL", "FLOAT", "DOUBLE",
     "NUMERIC", "BIGNUMERIC"} \X {"STRING"}

StringToNumericCases ==
    {"STRING"} \X {"BOOL", "INT32", "INT64", "UINT32", "UINT64", "FLOAT",
                   "DOUBLE", "NUMERIC", "BIGNUMERIC"}

IntToEnumCases == {"INT32", "INT64", "UINT32"} \X {"ENUM"}

EnumToIntCases == {"ENUM"} \X {"INT32", "INT64", "UINT32", "UINT64"}

OtherCases ==
    {<<"UINT64", "ENUM">>, <<"STRING", "ENUM">>, <<"STRING", "JSON">>,
     <<"STRING", "BYTES">>, <<"STRING", "PROTO">>, <<"BYTES", "STRING">>,
     <<"BYTES", "PROTO">>, <<"ENUM", "STRING">>, <<"ENUM", "ENUM">>,
     <<"STRUCT", "STRUCT">>, <<"PROTO", "STRING">>, <<"PROTO", "BYTES">>,
     <<"PROTO", "PROTO">>, <<"ARRAY", "ARRAY">>, <<"JSON", "STRING">>}

DispatchCases ==
    NumericCastCases \cup NumericToStringCases \cup StringToNumericCases
        \cup IntToEnumCases \cup EnumToIntCases \cup TemporalCases
        \cup OtherCases

\* ------------------------------------------------------------------------
\* CastContext::CastValue
\* ------------------------------------------------------------------------
RECURSIVE CastValue(_, _, _)
RECURSIVE CastStructFields(_, _, _, _, _, _)
RECURSIVE CastArrayElements(_, _, _, _, _, _)

\* serialized form of a map entry message with the given key and value
RenderField(v) ==
    IF v.is_null THEN <<>>
    ELSE IF v.type.kind \in IntegerKinds THEN IntToString(v.payload)
    ELSE v.payload

SerializeMapEntry(key, value) ==
    <<"k">> \o RenderField(key) \o <<"v">> \o RenderField(value)

\* faulty variant: the two fields are cast to each other's target type
DoMapEntryCast_Exchanged(from_value, lang, to_type) ==
    IF ~IsMapEntryCast(from_value.type, to_type)
    THEN Error("INTERNAL", Msg("RET_CHECK failure", 0, <<>>), <<>>)
    ELSE IF from_value.is_null
    THEN Error("FATAL", Msg("Null value", 0, <<>>), <<>>)
    ELSE LET key_type == to_type.fields[1]
             value_type == to_type.fields[2]
             field_ctx == WithValidation(lang, NoCatalog)
             key == CastValue(field_ctx, from_value.payload[2], key_type)
         IN  IF key.st # "OK" THEN key
             ELSE LET value == CastValue(field_ctx, from_value.payload[1],
                                         value_type)
                  IN  IF value.st # "OK"
                      THEN Error(value.st, value.msg, key.conv \o value.conv)
                      ELSE Ok(MakeValue(to_type,
                                        SerializeMapEntry(key.val, value.val)),
                              key.conv \o value.conv)

\* DoMapEntryCast(from_value, default_timezone, language_options, to_type):
\* the fields are cast by the public CastValue, called without a catalog.
DoMapEntryCast(from_value, lang, to_type) ==
    IF ~IsMapEntryCast(from_value.type, to_type)
    THEN Error("INTERNAL", Msg("RET_CHECK failure", 0, <<>>), <<>>)
    ELSE IF from_value.is_null
    THEN \* Value::field() CHECKs that the struct is not NULL
         Error("FATAL", Msg("Null value", 0, <<>>), <<>>)
    ELSE LET key_type == to_type.fields[1]
             value_type == to_type.fields[2]
             field_ctx == WithValidation(lang, NoCatalog)
             key == CastValue(field_ctx, from_value.payload[1], key_type)
         IN  IF key.st # "OK" THEN key
             ELSE LET value == CastValue(field_ctx, from_value.payload[2],
                                         value_type)
                  IN  IF value.st # "OK"
                      THEN Error(value.st, value.msg, key.conv \o value.conv)
                      ELSE Ok(MakeValue(to_type,
                                        SerializeMapEntry(key.val, value.val)),
                              key.conv \o value.conv)

\* faulty variant: the NULL is returned without the coercion check
CastNull_NoValidation(ctx, v, to_type) == Ok(Null(to_type), <<>>)

\* NULL handling of CastValue (v.is_null())
CastNull(ctx, v, to_type) ==
    LET validated ==
            IF ~IsSimpleType(v.type) /\ v.type.kind = to_type.kind
            THEN ValidateCoercion(ctx, v, to_type)
            ELSE OkStatus
    IN  IF validated.st # "OK" THEN validated
        ELSE Ok(Null(to_type), <<>>)

\* faulty variant: the source field, not the casted one, is stored
RECURSIVE CastStructFields_KeepSource(_, _, _, _, _, _)
CastStructFields_KeepSource(ctx, v, to_type, i, casted_field_values, conv) ==
    IF i > num_fields(v.type)
    THEN Ok(MakeValue(to_type, casted_field_values), conv)
    ELSE LET r == CastValue(ctx, v.payload[i], to_type.fields[i]) IN
         IF r.st # "OK" THEN Error(r.st, r.msg, conv \o r.conv)
         ELSE CastStructFields_KeepSource(ctx, v, to_type, i + 1,
                                          Append(casted_field_values,
                                                 v.payload[i]),
                                          conv \o r.conv)

\* the loop of case FCT(TYPE_STRUCT, TYPE_STRUCT), from field i on
CastStructFields(ctx, v, to_type, i, casted_field_values, conv) ==
    IF i > num_fields(v.type)
    THEN Ok(MakeValue(to_type, casted_field_values), conv)
    ELSE LET r == CastValue(ctx, v.payload[i], to_type.fields[i]) IN
         IF r.st # "OK" THEN Error(r.st, r.msg, conv \o r.conv)
         ELSE CastStructFields(ctx, v, to_type, i + 1,
                               Append(casted_field_values, r.val),
                               conv \o r.conv)

\* faulty variant: only a source with more fields than the target is rejected
StructToStruct_ArityGreater(ctx, v, to_type) ==
    IF num_fields(v.type) > num_fields(to_type)
    THEN MakeSqlError(UnsupportedCast)
    ELSE CastStructFields(ctx, v, to_type, 1, <<>>, <<>>)

\* case FCT(TYPE_STRUCT, TYPE_STRUCT)
StructToStruct(ctx, v, to_type) ==
    IF num_fields(v.type) # num_fields(to_type)
    THEN MakeSqlError(UnsupportedCast)
    ELSE CastStructFields(ctx, v, to_type, 1, <<>>, <<>>)

\* the loop of case FCT(TYPE_ARRAY, TYPE_ARRAY), from element i on
CastArrayElements(ctx, v, to_type, i, casted_elements, conv) ==
    IF i > Len(v.payload)
    THEN Ok(MakeValue(to_type, casted_elements), conv)
    ELSE IF v.payload[i].is_null
    THEN CastArrayElements(ctx, v, to_type, i + 1,
                           Append(casted_elements, Null(element_type(to_type))),
                           conv)
    ELSE LET r == CastValue(ctx, v.payload[i], element_type(to_type)) IN
         IF r.st # "OK" THEN Error(r.st, r.msg, conv \o r.conv)
         ELSE CastArrayElements(ctx, v, to_type, i + 1,
                                Append(casted_elements, r.val), conv \o r.conv)

\* faulty variant: the array types are not validated before the elements
\* are cast
ArrayToArray_NoValidation(ctx, v, to_type) ==
    CastArrayElements(ctx, v, to_type, 1, <<>>, <<>>)

\* case FCT(TYPE_ARRAY, TYPE_ARRAY)
ArrayToArray(ctx, v, to_type) ==
    LET validated == ValidateCoercion(ctx, v, to_type) IN
    IF validated.st # "OK" THEN validated
    ELSE CastArrayElements(ctx, v, to_type, 1, <<>>, <<>>)

\* default: of the switch
Unimplemented == Error("UNIMPLEMENTED", Msg("Unimplemented cast", 0, <<>>), <<>>)

\* the remaining cases of the switch, one by one
SimpleCase(ctx, v, to_type) ==
    LET p == <<v.type.kind, to_type.kind>> IN
    CASE p = <<"STRING", "BYTES">> -> Ok(MakeValue(to_type, v.payload), <<>>)
      [] p = <<"BYTES", "PROTO">>  -> Ok(MakeValue(to_type, v.payload), <<>>)
      [] p = <<"PROTO", "BYTES">>  -> Ok(MakeValue(to_type, v.payload), <<>>)
      [] p = <<"ENUM", "STRING">>  -> Ok(MakeValue(to_type, enum_name(v)), <<>>)
      [] p = <<"JSON", "STRING">>  -> Ok(MakeValue(to_type, v.payload.text), <<>>)
      [] p = <<"BYTES", "STRING">> -> BytesToString(v)
      [] p = <<"PROTO", "STRING">> -> ProtoToString(v)
      [] p = <<"PROTO", "PROTO">>  -> ProtoToProto(v, to_type)
      [] p = <<"STRING", "PROTO">> -> StringToProto(v, to_type)
      [] p = <<"STRING", "JSON">>  -> StringToJson(ctx, v)
      [] p = <<"STRING", "ENUM">>  -> StringToEnum(v, to_type)
      [] p = <<"ENUM", "ENUM">>    -> EnumToEnum(v, to_type)
      [] p = <<"STRUCT", "STRUCT">> -> StructToStruct(ctx, v, to_type)
      [] p = <<"ARRAY", "ARRAY">>  -> ArrayToArray(ctx, v, to_type)
      [] p = <<"UINT64", "ENUM">>  -> Uint64ToEnum(v, to_type)
      [] OTHER                     -> Unimplemented

\* switch (FCT(v.type()->kind(), to_type->kind()))
Dispatch(ctx, v, to_type) ==
    LET fk == v.type.kind
        tk == to_type.kind
        p == <<fk, tk>>
    IN  CASE p \in NumericCastCases     -> NumericCast(fk, tk, v)
          [] p \in NumericToStringCases -> NumericToString(fk, v)
          [] p \in StringToNumericCases -> StringToNumeric(tk, v)
          [] p \in IntToEnumCases       -> IntToEnum(v, to_type)
          [] p \in EnumToIntCases       -> EnumToInt(v, tk)
          [] p \in TemporalCases        -> TemporalCast(ctx, v, to_type)
          [] p \in OtherCases           -> SimpleCase(ctx, v, to_type)
          [] OTHER                      -> Unimplemented

\* faulty variant: only a simple type is cast to itself without more ado
IsIdentityCast_SimpleOnly(from_value, to_type) ==
    IsSimpleType(to_type) /\ Equals(from_value.type, to_type)

\* v.type()->Equals(to_type)
IsIdentityCast(from_value, to_type) == Equals(from_value.type, to_type)

\* CastContext::CastValue(from_value, to_type)
CastValue(ctx, from_value, to_type) ==
    IF ~from_value.valid
    THEN Error("INTERNAL", Msg("RET_CHECK failure", 0, <<>>), <<>>)
    ELSE IF IsIdentityCast(from_value, to_type)
    THEN Ok(from_value, <<>>)
    ELSE IF IsExtendedType(from_value.type) \/ IsExtendedType(to_type)
    THEN CastWithExtendedType(ctx, from_value, to_type)
    ELSE IF /\ LanguageFeatureEnabled(ctx.lang, "FEATURE_V_1_3_PROTO_MAPS")
            /\ IsMapEntryCast(from_value.type, to_type)
    THEN DoMapEntryCast(from_value, ctx.lang, to_type)
    ELSE IF ~ContainsKey(from_value.type.kind, to_type.kind)
    THEN MakeSqlError(UnsupportedCast)
    ELSE IF from_value.is_null
    THEN CastNull(ctx, from_value, to_type)
    ELSE Dispatch(ctx, from_value, to_type)

\* ------------------------------------------------------------------------
\* The values, options and catalogs enumerated
\* ------------------------------------------------------------------------
\* a string longer than the display length of a literal in an error
LongString == [i \in 1..(MAX_LITERAL_DISPLAY_LENGTH + 1) |-> "x"]

StringSamples ==
    {<<>>, <<"x">>, LongString, <<"A">>, <<"+", "1">>, TrueString, <<"{">>, <<"p">>,
     <<"q">>, <<"D">>, <<"S">>, <<"T">>, <<"M">>}
    \cup {IntToString(n) : n \in {MinOf("INT64"), -1, 2, MaxOf("INT32") + 1,
                                  MaxOf("UINT64")}}

\* values used as struct fields and array elements
FieldSamples(t) ==
    CASE t = Int64T -> {MakeValue(t, 2), MakeValue(t, MinOf("INT64")),
                        MakeValue(t, MaxOf("INT64"))}
      [] t = StringT -> {MakeValue(t, <<"2">>), MakeValue(t, <<"x">>)}
      [] t = Int32T -> {MakeValue(t, -1), Null(t)}
      [] t = BoolT -> {MakeValue(t, TRUE)}
      [] t = DateT -> {MakeValue(t, "ok"), Null(t)}
      [] t = EnumE -> {MakeValue(t, 1), Null(t)}
      [] OTHER -> {Null(t)}

RECURSIVE FieldTuples(_, _)
FieldTuples(field_types, i) ==
    IF i > Len(field_types) THEN {<<>>}
    ELSE {<<x>> \o rest : x \in FieldSamples(field_types[i]),
                          rest \in FieldTuples(field_types, i + 1)}

RECURSIVE ElementTuples(_, _)
ElementTuples(t, n) ==
    IF n = 0 THEN {<<>>}
    ELSE {<<x>> \o rest : x \in FieldSamples(t), rest \in ElementTuples(t, n - 1)}

NonNullPayloads(t) ==
    CASE t.kind \in IntegerKinds -> MinOf(t.kind)..MaxOf(t.kind)
      [] t.kind = "BOOL" -> BOOLEAN
      [] t.kind = "FLOAT" -> {Float(0), Float(-1), Float(MaxOf("FLOAT")), NaN}
      [] t.kind = "DOUBLE" ->
            {Float(2), Float(MinOf("INT64") - 1), Float(MaxOf("DOUBLE")), NaN}
      [] t.kind = "NUMERIC" -> {2, -1, MaxOf("NUMERIC")}
      [] t.kind = "BIGNUMERIC" -> {3, MinOf("BIGNUMERIC")}
      [] t.kind = "STRING" -> StringSamples
      [] t.kind = "BYTES" -> {<<>>, <<"p">>, <<"!">>}
      [] t.kind \in TemporalKinds -> {"ok", "edge"}
      [] t.kind = "GEOGRAPHY" -> {"geo"}
      [] t.kind = "JSON" -> {[validated |-> TRUE, text |-> <<"{">>],
                             [validated |-> FALSE, text |-> <<"x">>]}
      [] t.kind = "ENUM" -> {e[2] : e \in t.def}
      [] t.kind = "PROTO" ->
            IF t.map_entry
            THEN {SerializeMapEntry(MakeValue(Int32T, 1),
                                    MakeValue(StringT, <<"x">>))}
            ELSE {<<"p">>, <<"!">>}
      [] t.kind = "STRUCT" -> FieldTuples(t.fields, 1)
      [] t.kind = "ARRAY" ->
            UNION {ElementTuples(element_type(t), n) : n \in 0..MaxElems}
      [] OTHER -> {"x"}

\* the values of type t: the non-NULL ones, NULL, and for two types an
\* invalid Value
ValuesOf(t) ==
    {MakeValue(t, p) : p \in NonNullPayloads(t)}
        \cup {Null(t)}
        \cup (IF t \in {Int32T, ExtX} THEN {InvalidValue(t)} ELSE {})

LanguageOptionsSet == SUBSET LanguageFeatures

UserCatalog ==
    MakeCatalog({Registered(ExtX, ExtY, "fn_ok"),
                 Registered(ExtY, ExtX, "fn_err"),
                 Registered(ExtX, Int64T, "fn_ok"),
                 Registered(StringT, ExtX, "fn_ok")})

Catalogs == {NoCatalog, MakeCatalog({}), UserCatalog}

ExtendedConversions == {NullFunction} \cup UserFunctions

\* ------------------------------------------------------------------------
\* State: the last call of one of the two entry points and its result
\* ------------------------------------------------------------------------
VARIABLES pc, entry, from_value, to_type, language_options, catalog,
          extended_conversion, result

\* State of the cast table and of its readers:
\*   lookup, supports   the last lookup of a kind pair in GetZetaSQLCasts()
\*                      and the last evaluation of the Supports* predicates
\*   guard              the guard of the function-local static of
\*                      GetZetaSQLCasts
\*   cast_hash_map      that static: null or the address of a CastHashMap
\*   heap               the CastHashMap objects allocated so far
\*   threads            per thread: where it is in GetZetaSQLCasts and in
\*                      InitializeZetaSQLCasts, and what it read last
\*   init_calls         how many times InitializeZetaSQLCasts was entered
VARIABLES lookup, supports, guard, cast_hash_map, heap, threads, init_calls

castVars == <<pc, entry, from_value, to_type, language_options, catalog,
              extended_conversion, result>>

tableVars == <<lookup, supports>>

threadVars == <<guard, cast_hash_map, heap, threads, init_calls>>

\* State of the resolver's WITH handling:
\*   named_subquery_map_  alias -> the active subqueries of that name,
\*                        innermost last
\*   frames               the resolver's calls in progress, outermost first
\*   live                 the entries pushed and not yet popped, in the order
\*                        they were pushed
\*   last_ref             the last reference to a name and what it gave
\*   with_status          "ok", or "error" once a static error was returned
VARIABLES named_subquery_map_, frames, live, last_ref, with_status

withVars == <<named_subquery_map_, frames, live, last_ref, with_status>>

\* State of a ValidateRecursiveTermVisitor:
\*   visitor       its counters and seen_recursive_reference_
\*   visiting      the nodes whose visit is in progress, outermost first
\*   validation    "idle", "running", "ok" or "error", and the number of
\*                 recursive references accepted so far
\*   last_visited  the last recursive reference visited
VARIABLES visitor, visiting, validation, last_visited

visitVars == <<visitor, visiting, validation, last_visited>>

\* State of the conversions of a catalog:
\*   evaluator    a ConversionEvaluator object
\*   conversion   a Conversion object
\*   last_create  the last call of ConversionEvaluator::Create or
\*                Conversion::Create
\*   last_match   the last call of Conversion::IsMatch
\*   last_eval    the last call of ConversionEvaluator::Eval
VARIABLES evaluator, conversion, last_create, last_match, last_eval

convVars == <<evaluator, conversion, last_create, last_match, last_eval>>

\* State of a Resolver's column bookkeeping for one statement:
\*   column_id_sequence         the SequenceNumber next_column_id_sequence_
\*                              points to
\*   max_column_id_             the resolver's member
\*   allocated                  the ids AllocateColumnId returned, in order
\*   scans                      per scan of the tree: the columns it was
\*                              built with and its column_list
\*   referenced_column_access_  the map column -> ObjectAccess, as a set of
\*                              <<column, access>> with one pair a column
\*   recorded                   the accesses recorded, as <<column, flags>>
\*   column_refs                the columns of the ResolvedColumnRef nodes
\*   phase                      "building", "pruned" or "stamped"
\*   options_                   the analyzer options of the statement
\*   column_access_list         the statement's column_access_list
VARIABLES column_id_sequence, max_column_id_, allocated, scans,
          referenced_column_access_, recorded, column_refs, phase, options_,
          column_access_list

columnVars == <<column_id_sequence, max_column_id_, allocated, scans,
                referenced_column_access_, recorded, column_refs, phase,
                options_, column_access_list>>

vars == <<castVars, tableVars, threadVars, withVars, visitVars, convVars,
          columnVars>>

NoLookup == [called |-> FALSE, from_kind |-> "BOOL", to_kind |-> "BOOL",
             found |-> FALSE, cast_type |-> "none"]

NoSupports == [called |-> FALSE, cast_type |-> "none", implicit |-> FALSE,
               literal |-> FALSE, parameter |-> FALSE, explicit |-> FALSE]

\* nothing has read the table or evaluated a predicate
TableIdle ==
    /\ lookup = NoLookup
    /\ supports = NoSupports

\* no thread has entered GetZetaSQLCasts
NoThreads ==
    /\ guard = "uninit"
    /\ cast_hash_map = 0
    /\ heap = <<>>
    /\ threads = <<>>
    /\ init_calls = 0

\* the nullptr entry that stands for a recursive alias while its
\* non-recursive term is resolved
Nullptr == [null |-> TRUE, unique_alias |-> <<>>, is_recursive |-> FALSE,
            column_list |-> "none"]

NoRef == [called |-> FALSE, alias |-> "", found |-> FALSE, entry |-> Nullptr]

\* a resolver that has resolved nothing yet
NoResolver ==
    /\ named_subquery_map_ = <<>>
    /\ frames = <<>>
    /\ live = <<>>
    /\ last_ref = NoRef
    /\ with_status = "ok"

NoVisit == [called |-> FALSE, target |-> "", context |-> <<>>, earlier |-> 0]

\* validation: its status and the recursive references accepted so far
Validation(status, references) ==
    [status |-> status, references |-> references]

\* no validation of a recursive term is under way
NoVisitor ==
    /\ visitor = <<>>
    /\ visiting = <<>>
    /\ validation = Validation("idle", 0)
    /\ last_visited = NoVisit

NoCreate ==
    [called |-> FALSE, from_type |-> NullType, to_type |-> NullType,
     function |-> NullFunction, ok |-> FALSE]

NoMatch ==
    [called |-> FALSE,
     this |-> MakeConversion(InvalidEvaluator, "IMPLICIT"),
     options |-> FindConversionOptions(FALSE, "kOther"), matched |-> FALSE]

NoEval ==
    [called |-> FALSE, this |-> InvalidEvaluator, from_value |-> NoValue,
     result |-> OkStatus]

\* no conversion has been made or used
NoConversion ==
    /\ evaluator = InvalidEvaluator
    /\ conversion = MakeConversion(InvalidEvaluator, "IMPLICIT")
    /\ last_create = NoCreate
    /\ last_match = NoMatch
    /\ last_eval = NoEval

\* analyzer options: prune_unused_columns, and whether the statement is an
\* UPDATE or MERGE
AnalyzerOptions(prune_unused_columns, is_update) ==
    [prune_unused_columns |-> prune_unused_columns, is_update |-> is_update]

\* no statement is being resolved
NoColumns ==
    /\ column_id_sequence = 0
    /\ max_column_id_ = 0
    /\ allocated = <<>>
    /\ scans = <<>>
    /\ referenced_column_access_ = {}
    /\ recorded = {}
    /\ column_refs = {}
    /\ phase = "building"
    /\ options_ = AnalyzerOptions(FALSE, FALSE)
    /\ column_access_list = <<>>

\* no cast is under way
CastIdle ==
    /\ pc = "idle"
    /\ entry = "none"
    /\ from_value = NoValue
    /\ to_type = Int32T
    /\ language_options = {}
    /\ catalog = NoCatalog
    /\ extended_conversion = NullFunction
    /\ result = OkStatus

Init ==
    /\ CastIdle
    /\ TableIdle
    /\ NoThreads
    /\ NoResolver
    /\ NoVisitor
    /\ NoConversion
    /\ NoColumns

\* CastValue(from_value, default_timezone, language_options, to_type, catalog)
CallCastValue ==
    /\ pc = "idle"
    /\ \E t \in AllTypes, to \in AllTypes, lang \in LanguageOptionsSet,
          cat \in Catalogs :
         \E v \in ValuesOf(t) :
            /\ from_value' = v
            /\ to_type' = to
            /\ language_options' = lang
            /\ catalog' = cat
            /\ result' = CastValue(WithValidation(lang, cat), v, to)
    /\ entry' = "CastValue"
    /\ extended_conversion' = NullFunction
    /\ pc' = "done"
    /\ UNCHANGED <<tableVars, threadVars, withVars, visitVars, convVars, columnVars>>

\* internal::CastValueWithoutTypeValidation(from_value, default_timezone,
\*     language_options, to_type, extended_conversion)
CallCastValueWithoutTypeValidation ==
    /\ pc = "idle"
    /\ \E t \in AllTypes, to \in AllTypes, lang \in LanguageOptionsSet,
          fn \in ExtendedConversions :
         \E v \in ValuesOf(t) :
            /\ from_value' = v
            /\ to_type' = to
            /\ language_options' = lang
            /\ extended_conversion' = fn
            /\ result' = CastValue(WithoutValidation(lang, fn), v, to)
    /\ entry' = "CastValueWithoutTypeValidation"
    /\ catalog' = NoCatalog
    /\ pc' = "done"
    /\ UNCHANGED <<tableVars, threadVars, withVars, visitVars, convVars, columnVars>>

\* the caller takes the result; the next call starts afresh
Return ==
    /\ pc = "done"
    /\ pc' = "idle"
    /\ entry' = "none"
    /\ from_value' = NoValue
    /\ to_type' = Int32T
    /\ language_options' = {}
    /\ catalog' = NoCatalog
    /\ extended_conversion' = NullFunction
    /\ result' = OkStatus
    /\ UNCHANGED <<tableVars, threadVars, withVars, visitVars, convVars, columnVars>>

Next == CallCastValue \/ CallCastValueWithoutTypeValidation \/ Return

Spec == Init /\ [][Next]_vars

TypeOK ==
    /\ pc \in {"idle", "done"}
    /\ result.st \in StatusCodes

\* ------------------------------------------------------------------------
\* Readers of the cast table and the predicates on CastFunctionType
\* ------------------------------------------------------------------------
\* faulty variant: EXPLICIT_OR_LITERAL is taken for a class open to parameters
SupportsParameterCoercion_AnyLiteral(type) ==
    \/ type = "IMPLICIT"
    \/ type = "EXPLICIT_OR_LITERAL"
    \/ type = "EXPLICIT_OR_LITERAL_OR_PARAMETER"

SupportsImplicitCoercion(type) == type = "IMPLICIT"

SupportsLiteralCoercion(type) ==
    \/ type = "IMPLICIT"
    \/ type = "EXPLICIT_OR_LITERAL"
    \/ type = "EXPLICIT_OR_LITERAL_OR_PARAMETER"

SupportsParameterCoercion(type) ==
    \/ type = "IMPLICIT"
    \/ type = "EXPLICIT_OR_LITERAL_OR_PARAMETER"

SupportsExplicitCast(type) ==
    \/ type = "IMPLICIT"
    \/ type = "EXPLICIT"
    \/ type = "EXPLICIT_OR_LITERAL"
    \/ type = "EXPLICIT_OR_LITERAL_OR_PARAMETER"

\* zetasql_base::FindOrNull on a CastHashMap: the class stored under the
\* key (from_kind, to_kind), "none" when the map has no such key
FindOrNull(map, from_kind, to_kind) ==
    IF \E e \in map : e[1] = from_kind /\ e[2] = to_kind
    THEN (CHOOSE e \in map : e[1] = from_kind /\ e[2] = to_kind)[3]
    ELSE "none"

\* a reader looks a pair of kinds up in GetZetaSQLCasts()
FindCast ==
    /\ \E from_kind \in TypeKind, to_kind \in TypeKind :
          lookup' = [called |-> TRUE, from_kind |-> from_kind,
                     to_kind |-> to_kind,
                     found |-> ContainsKey(from_kind, to_kind),
                     cast_type |->
                         FindOrNull(GetZetaSQLCasts, from_kind, to_kind)]
    /\ UNCHANGED <<supports, castVars, threadVars, withVars,
                   visitVars, convVars, columnVars>>

\* a reader evaluates the four predicates on one class
CallSupports ==
    /\ \E type \in CastFunctionType :
          supports' = [called |-> TRUE, cast_type |-> type,
                       implicit |-> SupportsImplicitCoercion(type),
                       literal |-> SupportsLiteralCoercion(type),
                       parameter |-> SupportsParameterCoercion(type),
                       explicit |-> SupportsExplicitCast(type)]
    /\ UNCHANGED <<lookup, castVars, threadVars, withVars,
                   visitVars, convVars, columnVars>>

TableInit ==
    /\ CastIdle
    /\ TableIdle
    /\ NoThreads
    /\ NoResolver
    /\ NoVisitor
    /\ NoConversion
    /\ NoColumns

TableNext == FindCast \/ CallSupports

TableSpec == TableInit /\ [][TableNext]_vars

\* ------------------------------------------------------------------------
\* GetZetaSQLCasts under threads: the initialization of its function-local
\* static (dynamic initialization of a block-scope static: the first thread
\* to reach the declaration runs the initializer, a thread reaching it
\* meanwhile waits for the initializer to complete)
\* ------------------------------------------------------------------------
\* number of threads calling GetZetaSQLCasts
NumThreads == 2

Threads == 1..NumThreads

\* what the threads do not touch
otherVars ==
    <<castVars, tableVars, withVars, visitVars, convVars, columnVars>>

IdleThread == [pc |-> "idle", map |-> 0, i |-> 0, ref |-> 0, waited |-> FALSE,
               seen |-> {}]

\* zetasql_base::InsertIfNotPresent(map, {from, to}, {type, cost})
InsertIfNotPresent(m, e) ==
    IF \E x \in m : x[1] = e[1] /\ x[2] = e[2] THEN m ELSE m \cup {e}

\* faulty variant: the static is initialized without the guard's wait, any
\* thread that finds it not yet initialized runs the initializer
StaticGuard_NotThreadSafe(g) ==
    IF g = "done" THEN "use" ELSE "initialize"

\* what a thread reaching the declaration of the static does, by the state
\* of its guard
StaticGuard(g) ==
    CASE g = "uninit" -> "initialize"
      [] g = "running" -> "wait"
      [] g = "done" -> "use"

\* a thread calls GetZetaSQLCasts and finds the static not initialized: it
\* enters InitializeZetaSQLCasts, which allocates an empty CastHashMap
BeginInitialization(t) ==
    /\ threads[t].pc = "idle"
    /\ StaticGuard(guard) = "initialize"
    /\ guard' = "running"
    /\ init_calls' = init_calls + 1
    /\ heap' = Append(heap, {})
    /\ threads' = [threads EXCEPT ![t] =
                       [@ EXCEPT !.pc = "InitializeZetaSQLCasts",
                                 !.map = Len(heap) + 1, !.i = 1]]
    /\ UNCHANGED <<cast_hash_map, otherVars>>

\* one ADD_TO_MAP line of InitializeZetaSQLCasts
AddToCastMapStep(t) ==
    /\ threads[t].pc = "InitializeZetaSQLCasts"
    /\ threads[t].i <= Len(CastMapEntries)
    /\ heap' = [heap EXCEPT ![threads[t].map] =
                    InsertIfNotPresent(@, CastMapEntries[threads[t].i])]
    /\ threads' = [threads EXCEPT ![t] = [@ EXCEPT !.i = @ + 1]]
    /\ UNCHANGED <<guard, cast_hash_map, init_calls, otherVars>>

\* InitializeZetaSQLCasts returns map; the static is set and its guard
\* released; GetZetaSQLCasts returns *cast_hash_map
FinishInitialization(t) ==
    /\ threads[t].pc = "InitializeZetaSQLCasts"
    /\ threads[t].i > Len(CastMapEntries)
    /\ cast_hash_map' = threads[t].map
    /\ guard' = "done"
    /\ threads' = [threads EXCEPT ![t] =
                       [@ EXCEPT !.pc = "returned", !.ref = threads[t].map,
                                 !.map = 0, !.i = 0]]
    /\ UNCHANGED <<heap, init_calls, otherVars>>

\* a thread calls GetZetaSQLCasts while another runs the initializer
WaitForInitialization(t) ==
    /\ threads[t].pc = "idle"
    /\ StaticGuard(guard) = "wait"
    /\ threads' = [threads EXCEPT ![t] =
                       [@ EXCEPT !.pc = "blocked", !.waited = TRUE]]
    /\ UNCHANGED <<guard, cast_hash_map, heap, init_calls, otherVars>>

\* the initializer has completed: the waiting thread goes on and returns
\* *cast_hash_map
ResumeAfterInitialization(t) ==
    /\ threads[t].pc = "blocked"
    /\ guard = "done"
    /\ threads' = [threads EXCEPT ![t] =
                       [@ EXCEPT !.pc = "returned", !.ref = cast_hash_map]]
    /\ UNCHANGED <<guard, cast_hash_map, heap, init_calls, otherVars>>

\* a thread calls GetZetaSQLCasts after the initialization: it returns
\* *cast_hash_map
UseInitialized(t) ==
    /\ threads[t].pc = "idle"
    /\ StaticGuard(guard) = "use"
    /\ threads' = [threads EXCEPT ![t] =
                       [@ EXCEPT !.pc = "returned", !.ref = cast_hash_map]]
    /\ UNCHANGED <<guard, cast_hash_map, heap, init_calls, otherVars>>

\* the caller reads the table through the reference it received
ReadTable(t) ==
    /\ threads[t].pc = "returned"
    /\ threads' = [threads EXCEPT ![t] =
                       [@ EXCEPT !.pc = "read", !.seen = heap[threads[t].ref]]]
    /\ UNCHANGED <<guard, cast_hash_map, heap, init_calls, otherVars>>

\* the caller is done with the table
Leave(t) ==
    /\ threads[t].pc = "read"
    /\ threads' = [threads EXCEPT ![t] = IdleThread]
    /\ UNCHANGED <<guard, cast_hash_map, heap, init_calls, otherVars>>

ThreadInit ==
    /\ CastIdle
    /\ TableIdle
    /\ guard = "uninit"
    /\ cast_hash_map = 0
    /\ heap = <<>>
    /\ threads = [t \in Threads |-> IdleThread]
    /\ init_calls = 0
    /\ NoResolver
    /\ NoVisitor
    /\ NoConversion
    /\ NoColumns

ThreadNext ==
    \E t \in Threads :
        \/ BeginInitialization(t)
        \/ AddToCastMapStep(t)
        \/ FinishInitialization(t)
        \/ WaitForInitialization(t)
        \/ ResumeAfterInitialization(t)
        \/ UseInitialized(t)
        \/ ReadTable(t)
        \/ Leave(t)

ThreadSpec == ThreadInit /\ [][ThreadNext]_vars

\* ------------------------------------------------------------------------
\* The resolver's WITH entries: named_subquery_map_, the WITH clause of a
\* query and the two terms of a recursive WITH entry
\* ------------------------------------------------------------------------
\* the aliases the WITH entries of the queries resolved are named by
Aliases == {"a", "b"}

\* deepest nesting of queries and recursive entries being resolved
MaxFrames == 3

\* struct NamedSubquery; the unique alias is the alias and the depth of the
\* query whose WITH clause has the entry
NamedSubquery(alias, depth, is_recursive) ==
    [null |-> FALSE, unique_alias |-> <<alias, depth>>,
     is_recursive |-> is_recursive, column_list |-> "known"]

QueryFrame == [kind |-> "query", alias |-> "", pos |-> 0, aliases |-> <<>>]

TermFrame(kind, alias, pos) ==
    [kind |-> kind, alias |-> alias, pos |-> pos, aliases |-> <<>>]

\* the elements of a sequence
Elems(s) == {s[i] : i \in DOMAIN s}

\* faulty variant: an entry for an alias already bound takes the place of
\* the outer entry
PushBack_Replace(map, alias, named_subquery) ==
    IF alias \in DOMAIN map
    THEN [map EXCEPT ![alias] = <<named_subquery>>]
    ELSE [k \in DOMAIN map \cup {alias} |->
              IF k = alias THEN <<named_subquery>> ELSE map[k]]

\* named_subquery_map_[alias].push_back(named_subquery)
PushBack(map, alias, named_subquery) ==
    IF alias \in DOMAIN map
    THEN [map EXCEPT ![alias] = Append(@, named_subquery)]
    ELSE [k \in DOMAIN map \cup {alias} |->
              IF k = alias THEN <<named_subquery>> ELSE map[k]]

\* the innermost entry of an alias is removed, and the alias with it when
\* it has no other entry
PopBack(map, alias) ==
    IF Len(map[alias]) = 1
    THEN [k \in DOMAIN map \ {alias} |-> map[k]]
    ELSE [map EXCEPT ![alias] = SubSeq(@, 1, Len(@) - 1)]

\* the entries of a WITH clause are removed, last entry first
RECURSIVE PopAll(_, _)
PopAll(map, aliases) ==
    IF Len(aliases) = 0 THEN map
    ELSE PopAll(PopBack(map, aliases[Len(aliases)]),
                SubSeq(aliases, 1, Len(aliases) - 1))

\* faulty variant: the nullptr entry stays where it is
ReplaceBack_Keep(map, alias, named_subquery) == map

\* named_subquery_map_[alias].back() = named_subquery
ReplaceBack(map, alias, named_subquery) ==
    [map EXCEPT ![alias] = [@ EXCEPT ![Len(@)] = named_subquery]]

\* a reference to a name: not a named subquery, or the innermost entry of
\* the name, which is an error when that entry is the nullptr
Reference(map, alias) ==
    IF alias \notin DOMAIN map
    THEN [called |-> TRUE, alias |-> alias, found |-> FALSE, entry |-> Nullptr]
    ELSE [called |-> TRUE, alias |-> alias, found |-> TRUE,
          entry |-> map[alias][Len(map[alias])]]

Top == frames[Len(frames)]

\* ResolveQuery is entered, for the outermost query or for a subquery
BeginQuery ==
    /\ with_status = "ok"
    /\ Len(frames) < MaxFrames
    /\ frames' = Append(frames, QueryFrame)
    /\ last_ref' = NoRef
    /\ UNCHANGED <<named_subquery_map_, live, with_status>>
    /\ UNCHANGED <<castVars, tableVars, threadVars, visitVars, convVars, columnVars>>

\* ResolveWithClauseIfPresent, one entry that is not recursive: its
\* subquery is resolved and then AddNamedSubquery makes the alias visible
AddNamedSubquery ==
    /\ with_status = "ok"
    /\ frames # <<>>
    /\ Top.kind = "query"
    /\ \E alias \in Aliases \ Elems(Top.aliases) :
          LET e == NamedSubquery(alias, Len(frames), FALSE) IN
          /\ named_subquery_map_' = PushBack(named_subquery_map_, alias, e)
          /\ live' = Append(live, <<alias, e>>)
          /\ frames' = [frames EXCEPT ![Len(frames)].aliases =
                            Append(@, alias)]
    /\ last_ref' = NoRef
    /\ UNCHANGED with_status
    /\ UNCHANGED <<castVars, tableVars, threadVars, visitVars, convVars, columnVars>>

\* ResolveRecursive begins: the nullptr entry is pushed for the alias and the
\* non-recursive term is resolved next
BeginNonRecursiveTerm ==
    /\ with_status = "ok"
    /\ frames # <<>>
    /\ Top.kind = "query"
    /\ Len(frames) < MaxFrames
    /\ \E alias \in Aliases \ Elems(Top.aliases) :
          /\ named_subquery_map_' =
                 PushBack(named_subquery_map_, alias, Nullptr)
          /\ live' = Append(live, <<alias, Nullptr>>)
          /\ frames' = Append(frames, TermFrame("base", alias, Len(live) + 1))
    /\ last_ref' = NoRef
    /\ UNCHANGED with_status
    /\ UNCHANGED <<castVars, tableVars, threadVars, visitVars, convVars, columnVars>>

\* the non-recursive term is resolved and the columns are known: the nullptr
\* entry becomes the recursive NamedSubquery and the recursive term is
\* resolved next
BeginRecursiveTerm ==
    /\ with_status = "ok"
    /\ frames # <<>>
    /\ Top.kind = "base"
    /\ LET e == NamedSubquery(Top.alias, Len(frames) - 1, TRUE) IN
          /\ named_subquery_map_' =
                 ReplaceBack(named_subquery_map_, Top.alias, e)
          /\ live' = [live EXCEPT ![Top.pos] = <<Top.alias, e>>]
    /\ frames' = [frames EXCEPT ![Len(frames)].kind = "term"]
    /\ last_ref' = NoRef
    /\ UNCHANGED with_status
    /\ UNCHANGED <<castVars, tableVars, threadVars, visitVars, convVars, columnVars>>

\* the recursive term is resolved: the entry stays, as an entry of the WITH
\* clause of the enclosing query
FinishRecursiveTerm ==
    /\ with_status = "ok"
    /\ frames # <<>>
    /\ Top.kind = "term"
    /\ frames' = [SubSeq(frames, 1, Len(frames) - 1)
                      EXCEPT ![Len(frames) - 1].aliases =
                                 Append(@, Top.alias)]
    /\ last_ref' = NoRef
    /\ UNCHANGED <<named_subquery_map_, live, with_status>>
    /\ UNCHANGED <<castVars, tableVars, threadVars, visitVars, convVars, columnVars>>

\* a table path names alias: the innermost entry is referenced, and the
\* nullptr entry makes the reference a static error
ResolveReference ==
    /\ with_status = "ok"
    /\ frames # <<>>
    /\ \E alias \in Aliases :
          LET r == Reference(named_subquery_map_, alias) IN
          /\ last_ref' = r
          /\ with_status' = IF r.found /\ r.entry.null THEN "error" ELSE "ok"
    /\ UNCHANGED <<named_subquery_map_, frames, live>>
    /\ UNCHANGED <<castVars, tableVars, threadVars, visitVars, convVars, columnVars>>

\* FinishResolveWithClauseIfPresent: the body of the query is resolved and
\* the entries of its WITH clause are removed
FinishResolveWithClauseIfPresent ==
    /\ with_status = "ok"
    /\ frames # <<>>
    /\ Top.kind = "query"
    /\ named_subquery_map_' = PopAll(named_subquery_map_, Top.aliases)
    /\ live' = SubSeq(live, 1, Len(live) - Len(Top.aliases))
    /\ frames' = SubSeq(frames, 1, Len(frames) - 1)
    /\ last_ref' = NoRef
    /\ UNCHANGED with_status
    /\ UNCHANGED <<castVars, tableVars, threadVars, visitVars, convVars, columnVars>>

\* the static error is returned and nothing more is resolved; the next
\* statement is resolved by a new Resolver
NewResolver ==
    /\ with_status = "error"
    /\ named_subquery_map_' = <<>>
    /\ frames' = <<>>
    /\ live' = <<>>
    /\ last_ref' = NoRef
    /\ with_status' = "ok"
    /\ UNCHANGED <<castVars, tableVars, threadVars, visitVars, convVars, columnVars>>

WithInit ==
    /\ CastIdle
    /\ TableIdle
    /\ NoThreads
    /\ NoResolver
    /\ NoVisitor
    /\ NoConversion
    /\ NoColumns

WithNext ==
    \/ BeginQuery
    \/ AddNamedSubquery
    \/ BeginNonRecursiveTerm
    \/ BeginRecursiveTerm
    \/ FinishRecursiveTerm
    \/ ResolveReference
    \/ FinishResolveWithClauseIfPresent
    \/ NewResolver

WithSpec == WithInit /\ [][WithNext]_vars

\* ------------------------------------------------------------------------
\* ValidateRecursiveTermVisitor: the walk over the resolved recursive term
\* ------------------------------------------------------------------------
\* deepest nesting of nodes around a recursive reference
MaxNesting == 2

JoinTypes == {"INNER", "LEFT", "RIGHT", "FULL"}

\* a node whose visit is in progress; of a join, the operand being visited
Node(node, join_type, left_operand) ==
    [node |-> node, join_type |-> join_type, left_operand |-> left_operand]

\* the nodes the visitor has a Visit method for, and FilterScan for the
\* nodes left to DefaultVisit
VisitedNodes ==
    {Node(n, "", FALSE) :
        n \in {"AggregateScan", "LimitOffsetScan", "AnalyticScan",
               "SubqueryExpr", "SampleScan", "OrderByScan",
               "FunctionArgument", "WithEntry", "FilterScan"}}
    \cup {Node("JoinScan", jt, l) : jt \in JoinTypes, l \in BOOLEAN}

\* the name of the recursive query whose term is validated
recursive_query_name_ == "r"

\* a recursive query outside the one being validated
outer_query_name == "outer"

CountFields ==
    {"nested_with_entry_count_", "aggregate_scan_count_",
     "analytic_scan_count_", "limit_offset_scan_count_",
     "order_by_scan_count_", "sample_scan_count_", "subquery_expr_count_",
     "right_operand_of_left_join_count_",
     "left_operand_of_right_join_count_", "full_join_operand_count_",
     "tvf_argument_count_"}

\* the visitor as constructed: every count 0, no reference seen
NewVisitor ==
    [count |-> [f \in CountFields |-> 0],
     seen_recursive_reference_ |-> FALSE]

\* faulty variant: the operands of the LEFT and the RIGHT join are exchanged
GetJoinCountField_Exchanged(join_type, left_operand) ==
    CASE join_type = "LEFT" /\ left_operand ->
             "right_operand_of_left_join_count_"
      [] join_type = "RIGHT" /\ ~left_operand ->
             "left_operand_of_right_join_count_"
      [] join_type = "FULL" -> "full_join_operand_count_"
      [] OTHER -> "nullptr"

\* GetJoinCountField: the count a join operand is counted in, or nullptr
GetJoinCountField(join_type, left_operand) ==
    CASE join_type = "LEFT" /\ ~left_operand ->
             "right_operand_of_left_join_count_"
      [] join_type = "RIGHT" /\ left_operand ->
             "left_operand_of_right_join_count_"
      [] join_type = "FULL" -> "full_join_operand_count_"
      [] OTHER -> "nullptr"

\* the count that the visit of a node raises while its children are visited
CountField(n) ==
    CASE n.node = "AggregateScan" -> "aggregate_scan_count_"
      [] n.node = "LimitOffsetScan" -> "limit_offset_scan_count_"
      [] n.node = "AnalyticScan" -> "analytic_scan_count_"
      [] n.node = "SubqueryExpr" -> "subquery_expr_count_"
      [] n.node = "SampleScan" -> "sample_scan_count_"
      [] n.node = "OrderByScan" -> "order_by_scan_count_"
      [] n.node = "FunctionArgument" -> "tvf_argument_count_"
      [] n.node = "WithEntry" -> "nested_with_entry_count_"
      [] n.node = "JoinScan" -> GetJoinCountField(n.join_type, n.left_operand)
      [] OTHER -> "nullptr"

\* MaybeAdjustJoinCount and the ++ / -- around the visit of the children
AdjustCount(v, n, offset) ==
    IF CountField(n) = "nullptr" THEN v
    ELSE [v EXCEPT !.count[CountField(n)] = @ + offset]

\* the visitor is constructed and the walk of the recursive term begins
BeginValidation ==
    /\ validation.status = "idle"
    /\ validation' = Validation("running", 0)
    /\ visitor' = NewVisitor
    /\ visiting' = <<>>
    /\ last_visited' = NoVisit
    /\ UNCHANGED <<castVars, tableVars, threadVars, withVars, convVars,
                   columnVars>>

\* the visit of a node, or of an operand of a join, begins
EnterNode ==
    /\ validation.status = "running"
    /\ Len(visiting) < MaxNesting
    /\ \E n \in VisitedNodes :
          /\ visitor' = AdjustCount(visitor, n, 1)
          /\ visiting' = Append(visiting, n)
    /\ last_visited' = NoVisit
    /\ UNCHANGED validation
    /\ UNCHANGED <<castVars, tableVars, threadVars, withVars, convVars,
                   columnVars>>

\* the children of the innermost node are visited
LeaveNode ==
    /\ validation.status = "running"
    /\ visiting # <<>>
    /\ visitor' = AdjustCount(visitor, visiting[Len(visiting)], -1)
    /\ visiting' = SubSeq(visiting, 1, Len(visiting) - 1)
    /\ last_visited' = NoVisit
    /\ UNCHANGED validation
    /\ UNCHANGED <<castVars, tableVars, threadVars, withVars, convVars,
                   columnVars>>

\* VisitResolvedRecursiveRefScan: a reference to another recursive query, a
\* reference inside one of the counted contexts and a second reference are
\* static errors
VisitResolvedRecursiveRefScan ==
    /\ validation.status = "running"
    /\ \E target \in {recursive_query_name_, outer_query_name} :
          LET rejected ==
                  \/ target # recursive_query_name_
                  \/ \E f \in CountFields : visitor.count[f] > 0
                  \/ visitor.seen_recursive_reference_
          IN  /\ last_visited' = [called |-> TRUE, target |-> target,
                                  context |-> visiting,
                                  earlier |-> validation.references]
              /\ validation' =
                     IF rejected
                     THEN Validation("error", validation.references)
                     ELSE Validation("running", validation.references + 1)
              /\ visitor' =
                     IF rejected THEN visitor
                     ELSE [visitor EXCEPT !.seen_recursive_reference_ = TRUE]
    /\ UNCHANGED visiting
    /\ UNCHANGED <<castVars, tableVars, threadVars, withVars, convVars,
                   columnVars>>

\* the walk is over without an error
FinishValidation ==
    /\ validation.status = "running"
    /\ visiting = <<>>
    /\ validation' = Validation("ok", validation.references)
    /\ last_visited' = NoVisit
    /\ UNCHANGED <<visitor, visiting>>
    /\ UNCHANGED <<castVars, tableVars, threadVars, withVars, convVars,
                   columnVars>>

\* the status is returned and the visitor destroyed
EndValidation ==
    /\ validation.status \in {"ok", "error"}
    /\ validation' = Validation("idle", 0)
    /\ visitor' = <<>>
    /\ visiting' = <<>>
    /\ last_visited' = NoVisit
    /\ UNCHANGED <<castVars, tableVars, threadVars, withVars, convVars,
                   columnVars>>

VisitInit ==
    /\ CastIdle
    /\ TableIdle
    /\ NoThreads
    /\ NoResolver
    /\ NoVisitor
    /\ NoConversion
    /\ NoColumns

VisitNext ==
    \/ BeginValidation
    \/ EnterNode
    \/ LeaveNode
    \/ VisitResolvedRecursiveRefScan
    \/ FinishValidation
    \/ EndValidation

VisitSpec == VisitInit /\ [][VisitNext]_vars

\* ------------------------------------------------------------------------
\* Conversions: ConversionEvaluator and Conversion objects and their users
\* ------------------------------------------------------------------------
\* the type pointers, functions and values the callers pass
ConversionTypes == {NullType, ExtX, ExtY}

ConversionValues ==
    {MakeValue(ExtX, "x"), Null(ExtX), MakeValue(ExtY, "x"),
     MakeValue(Int64T, 2)}

conversionOtherVars ==
    <<castVars, tableVars, threadVars, withVars, visitVars, columnVars>>

\* Each call leaves the record of its own kind only: the three records say
\* what the last call was.
\* ConversionEvaluator::Create(from_type, to_type, function)
CallConversionEvaluatorCreate ==
    /\ \E from_type \in ConversionTypes, to \in ConversionTypes,
          function \in ExtendedConversions :
         LET created == ConversionEvaluatorCreate(from_type, to, function) IN
         /\ last_create' = [called |-> TRUE, from_type |-> from_type,
                            to_type |-> to, function |-> function,
                            ok |-> created.ok]
         /\ evaluator' = IF created.ok THEN created.evaluator ELSE evaluator
    /\ last_match' = NoMatch
    /\ last_eval' = NoEval
    /\ UNCHANGED <<conversion, conversionOtherVars>>

\* Conversion::Create(from_type, to_type, function, property)
CallConversionCreate ==
    /\ \E from_type \in ConversionTypes, to \in ConversionTypes,
          function \in ExtendedConversions, property \in CastFunctionType :
         LET created == ConversionCreate(from_type, to, function, property) IN
         /\ last_create' = [called |-> TRUE, from_type |-> from_type,
                            to_type |-> to, function |-> function,
                            ok |-> created.ok]
         /\ conversion' = IF created.ok THEN created.conversion ELSE conversion
    /\ last_match' = NoMatch
    /\ last_eval' = NoEval
    /\ UNCHANGED <<evaluator, conversionOtherVars>>

\* Conversion::Invalid(), and the default constructed evaluator it holds
CallConversionInvalid ==
    /\ \E property \in CastFunctionType :
         conversion' = MakeConversion(InvalidEvaluator, property)
    /\ evaluator' = InvalidEvaluator
    /\ last_create' = NoCreate
    /\ last_match' = NoMatch
    /\ last_eval' = NoEval
    /\ UNCHANGED conversionOtherVars

\* conversion.IsMatch(options)
CallIsMatch ==
    /\ \E is_explicit \in BOOLEAN,
          source_kind \in ConversionSourceExpressionKind :
         LET options == FindConversionOptions(is_explicit, source_kind) IN
         last_match' = [called |-> TRUE, this |-> conversion,
                        options |-> options,
                        matched |-> IsMatch(conversion, options)]
    /\ last_create' = NoCreate
    /\ last_eval' = NoEval
    /\ UNCHANGED <<evaluator, conversion, conversionOtherVars>>

\* evaluator.Eval(from_value), on the evaluator object or on the one of the
\* conversion
CallEval ==
    /\ \E this \in {evaluator, conversion.evaluator},
          v \in ConversionValues :
         last_eval' = [called |-> TRUE, this |-> this, from_value |-> v,
                       result |-> ConversionEvaluatorEval(this, v)]
    /\ last_create' = NoCreate
    /\ last_match' = NoMatch
    /\ UNCHANGED <<evaluator, conversion, conversionOtherVars>>

ConversionInit ==
    /\ CastIdle
    /\ TableIdle
    /\ NoThreads
    /\ NoResolver
    /\ NoVisitor
    /\ NoConversion
    /\ NoColumns

ConversionNext ==
    \/ CallConversionEvaluatorCreate
    \/ CallConversionCreate
    \/ CallConversionInvalid
    \/ CallIsMatch
    \/ CallEval

ConversionSpec == ConversionInit /\ [][ConversionNext]_vars

\* ------------------------------------------------------------------------
\* Resolver: column ids, column access and the pruning of column lists
\* ------------------------------------------------------------------------
\* the ids the sequence hands out in the model, and the scans of a statement
MaxColumnId == 3
MaxScans == 2

\* ResolvedStatement::ObjectAccess
NONE == 0
READ == 1
WRITE == 2
READ_WRITE == 3

\* a | b on ObjectAccess
BitOr(a, b) ==
    (IF a % 2 = 1 \/ b % 2 = 1 THEN 1 ELSE 0)
        + (IF a \div 2 = 1 \/ b \div 2 = 1 THEN 2 ELSE 0)

\* faulty variant: the sequence hands its current number out again
GetNext_Repeated(sequence) == IF sequence = 0 THEN 1 ELSE sequence

\* zetasql_base::SequenceNumber::GetNext(): the number handed out, which is
\* also the state the sequence is left in
GetNext(sequence) == sequence + 1

\* the ids n successive calls of AllocateColumnId return, from a sequence
RECURSIVE AllocateColumnIds(_, _)
AllocateColumnIds(sequence, n) ==
    IF n = 0 THEN <<>>
    ELSE <<GetNext(sequence)>> \o AllocateColumnIds(GetNext(sequence), n - 1)

\* the access the map holds for a column, NONE when it has no entry
AccessOf(map, column) ==
    IF \E e \in map : e[1] = column
    THEN (CHOOSE e \in map : e[1] = column)[2]
    ELSE NONE

HasAccess(map, column) == \E e \in map : e[1] = column

\* faulty variant: the access recorded last replaces the earlier ones
RecordColumnAccess_Overwrite(map, column, access_flags) ==
    {e \in map : e[1] # column} \cup {<<column, access_flags>>}

\* Resolver::RecordColumnAccess(column, access_flags)
RecordColumnAccess(map, column, access_flags) ==
    {e \in map : e[1] # column}
        \cup {<<column, BitOr(AccessOf(map, column), access_flags)>>}

Scan(columns) == [original |-> columns, column_list |-> columns]

Range(s) == {s[i] : i \in 1..Len(s)}

\* the columns of the scans of the tree
ScanColumns == UNION {scans[i].original : i \in 1..Len(scans)}

\* the access flags a statement can record
AccessFlags == IF options_.is_update THEN {READ, WRITE} ELSE {READ}

\* faulty variant: the access list may be filled before the pruning
PruneFinished_Early(p) == p \in {"building", "pruned"}

\* PruneColumnLists has returned
PruneFinished(p) == p = "pruned"

\* the columns of a set, in increasing order of id
RECURSIVE Sorted(_)
Sorted(S) ==
    IF S = {} THEN <<>>
    ELSE LET m == CHOOSE x \in S : \A y \in S : x <= y
         IN  <<m>> \o Sorted(S \ {m})

columnOtherVars ==
    <<castVars, tableVars, threadVars, withVars, visitVars, convVars>>

\* a scan is resolved: AllocateColumnId is called for each of its columns
ResolveScan ==
    /\ phase = "building"
    /\ Len(scans) < MaxScans
    /\ \E n \in 1..MaxColumnId :
         LET ids == AllocateColumnIds(column_id_sequence, n) IN
         /\ column_id_sequence + n <= MaxColumnId
         /\ allocated' = allocated \o ids
         /\ column_id_sequence' = ids[n]
         /\ max_column_id_' = ids[n]
         /\ scans' = Append(scans, Scan(Range(ids)))
    /\ UNCHANGED <<referenced_column_access_, recorded, column_refs, phase,
                   options_, column_access_list, columnOtherVars>>

\* another resolver takes a number from the SequenceNumber of the options
AllocateElsewhere ==
    /\ column_id_sequence < MaxColumnId
    /\ column_id_sequence' = GetNext(column_id_sequence)
    /\ UNCHANGED <<max_column_id_, allocated, scans,
                   referenced_column_access_, recorded, column_refs, phase,
                   options_, column_access_list, columnOtherVars>>

\* MakeColumnRef(column, is_correlated, access_flags)
MakeColumnRef ==
    /\ phase = "building"
    /\ \E column \in ScanColumns, access_flags \in AccessFlags :
         /\ column_refs' = column_refs \cup {column}
         /\ referenced_column_access_' =
                RecordColumnAccess(referenced_column_access_, column,
                                   access_flags)
         /\ recorded' = recorded \cup {<<column, access_flags>>}
    /\ UNCHANGED <<column_id_sequence, max_column_id_, allocated, scans,
                   phase, options_, column_access_list, columnOtherVars>>

\* RecordColumnAccess(column, access_flags), called while the tree is built
CallRecordColumnAccess ==
    /\ phase = "building"
    /\ \E column \in ScanColumns, access_flags \in AccessFlags :
         /\ referenced_column_access_' =
                RecordColumnAccess(referenced_column_access_, column,
                                   access_flags)
         /\ recorded' = recorded \cup {<<column, access_flags>>}
    /\ UNCHANGED <<column_id_sequence, max_column_id_, allocated, scans,
                   column_refs, phase, options_, column_access_list,
                   columnOtherVars>>

\* the tree is complete; PruneColumnLists(node) when
\* analyzer_options_.prune_unused_columns is set
PruneColumnLists ==
    /\ phase = "building"
    /\ scans # <<>>
    /\ scans' =
          IF options_.prune_unused_columns
          THEN [i \in 1..Len(scans) |->
                  [scans[i] EXCEPT !.column_list =
                      {c \in scans[i].column_list :
                          HasAccess(referenced_column_access_, c)}]]
          ELSE scans
    /\ phase' = "pruned"
    /\ UNCHANGED <<column_id_sequence, max_column_id_, allocated,
                   referenced_column_access_, recorded, column_refs,
                   options_, column_access_list, columnOtherVars>>

\* SetColumnAccessList(statement): for an UPDATE or MERGE, the access of
\* each column of the statement's table scan
SetColumnAccessList ==
    /\ PruneFinished(phase)
    /\ column_access_list' =
          IF options_.is_update
          THEN LET list == Sorted(scans[1].column_list) IN
               [i \in 1..Len(list) |->
                   AccessOf(referenced_column_access_, list[i])]
          ELSE <<>>
    /\ phase' = "stamped"
    /\ UNCHANGED <<column_id_sequence, max_column_id_, allocated, scans,
                   referenced_column_access_, recorded, column_refs,
                   options_, columnOtherVars>>

ColumnInit ==
    /\ CastIdle
    /\ TableIdle
    /\ NoThreads
    /\ NoResolver
    /\ NoVisitor
    /\ NoConversion
    /\ column_id_sequence = 0
    /\ max_column_id_ = 0
    /\ allocated = <<>>
    /\ scans = <<>>
    /\ referenced_column_access_ = {}
    /\ recorded = {}
    /\ column_refs = {}
    /\ phase = "building"
    /\ options_ \in {AnalyzerOptions(p, u) : p \in BOOLEAN, u \in BOOLEAN}
    /\ column_access_list = <<>>

ColumnNext ==
    \/ ResolveScan
    \/ AllocateElsewhere
    \/ MakeColumnRef
    \/ CallRecordColumnAccess
    \/ PruneColumnLists
    \/ SetColumnAccessList

ColumnSpec == ColumnInit /\ [][ColumnNext]_vars

\* ------------------------------------------------------------------------
\* Properties
\* ------------------------------------------------------------------------
\* a call has returned, and its source value was a valid Value
Returned == pc = "done" /\ from_value.valid

FromKind == from_value.type.kind
ToKind == to_type.kind

\* the cast table holds an entry for the kinds of the two types
HasTableEntry == <<FromKind, ToKind>> \in CastKeys

InvolvesExtendedType ==
    IsExtendedType(from_value.type) \/ IsExtendedType(to_type)

MapEntryCaseApplies ==
    /\ LanguageFeatureEnabled(language_options, "FEATURE_V_1_3_PROTO_MAPS")
    /\ IsMapEntryCast(from_value.type, to_type)

\* C1: a valid value, NULL or not, whose type equals the target type is
\* returned unchanged by both entry points, whatever the kind of the type
\* and without any conversion being invoked.
C1_Identity ==
    (Returned /\ Equals(from_value.type, to_type))
        => /\ result.st = "OK"
           /\ SameValue(result.val, from_value)
           /\ result.conv = <<>>

C1_Witness ==
    /\ Returned
    /\ entry = "CastValue"
    /\ from_value.type = ExtX
    /\ to_type = ExtX
    /\ ~from_value.is_null
    /\ ~catalog.present
    /\ result.st = "OK"

\* a cast between the two types is legal: a table entry for the kinds and
\* shapes the validator accepts, or the map-entry case with its feature on
LegalCast ==
    \/ /\ HasTableEntry
       /\ CoercesTo(catalog, from_value.type, to_type)
    \/ MapEntryCaseApplies

\* C2: CastValue of the NULL value of S to T, for a legal pair (S, T),
\* succeeds and returns the NULL value of T.
C2_NullPreservation ==
    (Returned /\ from_value.is_null /\ LegalCast)
        => /\ result.st = "OK"
           /\ SameValue(result.val, Null(to_type))

\* C3: for a pair of kinds that has an entry in the cast table, no value
\* makes a cast return Unimplemented: the types are equal, or the value is
\* NULL, or the switch has a case for the pair.
C3_LatticeDispatcherConsistency ==
    (Returned /\ HasTableEntry)
        => /\ result.st # "UNIMPLEMENTED"
           /\ \/ Equals(from_value.type, to_type)
              \/ from_value.is_null
              \/ <<FromKind, ToKind>> \in DispatchCases

C3_Witness ==
    /\ Returned
    /\ FromKind = "TIMESTAMP"
    /\ ToKind = "TIME"
    /\ ~from_value.is_null
    /\ result.st = "OK"

\* C4: two different types, neither extended, outside the map-entry case
\* and with no table entry for their kinds: the cast of every value, NULL
\* included, fails with the static error "Unsupported cast", and no
\* conversion is invoked.
C4_UnsupportedCast ==
    (/\ Returned
     /\ ~Equals(from_value.type, to_type)
     /\ ~InvolvesExtendedType
     /\ ~MapEntryCaseApplies
     /\ ~HasTableEntry)
        => /\ result.st = "SQL_ERROR"
           /\ result.msg = UnsupportedCast
           /\ result.conv = <<>>

C4_Witness ==
    /\ Returned
    /\ FromKind = "TIME"
    /\ ToKind = "TIMESTAMP"
    /\ from_value.is_null
    /\ result.st = "SQL_ERROR"

StructArityMismatch ==
    /\ FromKind = "STRUCT"
    /\ ToKind = "STRUCT"
    /\ num_fields(from_value.type) # num_fields(to_type)

\* C5 as stated: a struct of n fields cast to a struct type of m # n fields
\* fails with a static error, NULL or not, before any field is cast.
C5_StructArity_Original ==
    (Returned /\ StructArityMismatch)
        => /\ result.st = "SQL_ERROR"
           /\ result.conv = <<>>

\* C5 amended: for every non-NULL struct the cast fails with the static
\* error "Unsupported cast" before any field is cast.  For the NULL struct
\* the arity is looked at only by ValidateCoercion: the validating CastValue
\* fails with the same static error when the coercion check rejects the
\* pair of struct types, and CastValueWithoutTypeValidation, whose
\* ValidateCoercion accepts everything, returns NULL of the target type.
C5_StructArity ==
    (Returned /\ StructArityMismatch)
        => /\ result.conv = <<>>
           /\ IF \/ ~from_value.is_null
                 \/ /\ entry = "CastValue"
                    /\ ~CoercesTo(catalog, from_value.type, to_type)
              THEN /\ result.st = "SQL_ERROR"
                   /\ result.msg = UnsupportedCast
              ELSE /\ result.st = "OK"
                   /\ SameValue(result.val, Null(to_type))

C5_Witness ==
    /\ Returned
    /\ StructArityMismatch
    /\ num_fields(from_value.type) = 2
    /\ num_fields(to_type) = 3
    /\ ~from_value.is_null
    /\ result.st = "SQL_ERROR"

\* C6: a non-NULL value n of one integer kind cast to another integer kind
\* gives the value n of the target kind when the target can hold n, and an
\* out-of-range evaluation error quoting n otherwise; it never wraps.
C6_NumericOverflow ==
    (/\ Returned
     /\ ~from_value.is_null
     /\ FromKind \in IntegerKinds
     /\ ToKind \in IntegerKinds
     /\ FromKind # ToKind)
        => IF InRange(ToKind, from_value.payload)
           THEN /\ result.st = "OK"
                /\ SameValue(result.val, MakeValue(to_type, from_value.payload))
           ELSE /\ result.st = "EVAL_ERROR"
                /\ result.msg = Msg(OverflowText(ToKind), from_value.payload, <<>>)

C6_Witness ==
    /\ Returned
    /\ FromKind = "UINT64"
    /\ ToKind = "INT32"
    /\ ~from_value.is_null
    /\ from_value.payload = MaxOf("UINT64")
    /\ result.st = "EVAL_ERROR"

\* C7: a non-NULL integer n cast to an enum type succeeds exactly when the
\* enum defines the number n, and fails with an evaluation error quoting n
\* otherwise.
C7_IntegerToEnum ==
    (/\ Returned
     /\ ~from_value.is_null
     /\ FromKind \in IntegerKinds
     /\ ToKind = "ENUM")
        => IF \E e \in to_type.def : e[2] = from_value.payload
           THEN /\ result.st = "OK"
                /\ SameValue(result.val, MakeValue(to_type, from_value.payload))
           ELSE /\ result.st = "EVAL_ERROR"
                /\ result.msg.num = from_value.payload

\* C8: a non-NULL enum (proto) value cast to a different enum (proto) type
\* fails with a static error when the two types are not equivalent; for
\* equivalent types the enum cast fails, dynamically, exactly when the
\* target does not define the number, and the proto cast succeeds.
C8_SameKindDefinitionCheck ==
    (/\ Returned
     /\ ~from_value.is_null
     /\ FromKind = ToKind
     /\ FromKind \in {"ENUM", "PROTO"}
     /\ ~Equals(from_value.type, to_type))
        => IF ~Equivalent(from_value.type, to_type)
           THEN result.st = "SQL_ERROR"
           ELSE IF FromKind = "ENUM"
           THEN IF \E e \in to_type.def : e[2] = from_value.payload
                THEN /\ result.st = "OK"
                     /\ SameValue(result.val,
                                  MakeValue(to_type, from_value.payload))
                ELSE result.st = "EVAL_ERROR"
           ELSE result.st = "OK"

C8_Witness ==
    /\ Returned
    /\ from_value.type = EnumE
    /\ to_type = EnumF
    /\ ~from_value.is_null
    /\ from_value.payload = 1
    /\ result.st = "SQL_ERROR"

RegisteredFor(from_type, to) ==
    {c \in catalog.conversions : c.from = from_type /\ c.to = to}

ExtendedCastByCastValue ==
    /\ Returned
    /\ entry = "CastValue"
    /\ ~Equals(from_value.type, to_type)
    /\ InvolvesExtendedType

\* C9 as stated: CastValue between two different types, one of them
\* extended, returns what the conversion registered for the pair returns,
\* and fails with FailedPrecondition when none is registered.
C9_ExtendedDelegation_Original ==
    ExtendedCastByCastValue
        => IF RegisteredFor(from_value.type, to_type) # {}
           THEN \E c \in RegisteredFor(from_value.type, to_type) :
                    LET r == EvaluateFunction(c.fn, from_value, to_type) IN
                    /\ result.st = r.st
                    /\ SameValue(result.val, r.val)
           ELSE result.st = "FAILED_PRECONDITION"

\* C9 amended: without a catalog the cast fails with FailedPrecondition;
\* with a catalog it returns what the conversion the catalog finds for
\* exactly (from type, to type) returns, and the status of the failed
\* lookup (not found) when the catalog has none; the cast table plays no
\* part.
C9_ExtendedDelegation ==
    ExtendedCastByCastValue
        => IF ~catalog.present
           THEN result.st = "FAILED_PRECONDITION"
           ELSE IF RegisteredFor(from_value.type, to_type) # {}
           THEN \E c \in RegisteredFor(from_value.type, to_type) :
                    LET r == EvaluateFunction(c.fn, from_value, to_type) IN
                    /\ result.st = r.st
                    /\ SameValue(result.val, r.val)
                    /\ result.conv = r.conv
           ELSE /\ result.st = "NOT_FOUND"
                /\ result.conv = <<>>

C9_Witness ==
    /\ ExtendedCastByCastValue
    /\ from_value.type = StringT
    /\ to_type = ExtX
    /\ ~from_value.is_null
    /\ catalog = UserCatalog
    /\ result.st = "OK"
    /\ result.val.type = ExtX

\* C10: a cast between two different types, one of them extended, fails
\* with FailedPrecondition and invokes no conversion when CastValue has no
\* catalog and when CastValueWithoutTypeValidation has no conversion
\* function.
C10_ExtendedCastMisuse ==
    (/\ Returned
     /\ ~Equals(from_value.type, to_type)
     /\ InvolvesExtendedType
     /\ \/ entry = "CastValue" /\ ~catalog.present
        \/ /\ entry = "CastValueWithoutTypeValidation"
           /\ extended_conversion = NullFunction)
        => /\ result.st = "FAILED_PRECONDITION"
           /\ result.conv = <<>>

C10_Witness ==
    /\ Returned
    /\ entry = "CastValueWithoutTypeValidation"
    /\ extended_conversion = NullFunction
    /\ from_value.type = ExtX
    /\ to_type = Int64T
    /\ ~from_value.is_null
    /\ result.st = "FAILED_PRECONDITION"

\* the cast context of the call that has returned
Ctx ==
    IF entry = "CastValue"
    THEN WithValidation(language_options, catalog)
    ELSE WithoutValidation(language_options, extended_conversion)

\* a non-NULL array cast to a different array type
ArrayCast ==
    /\ Returned
    /\ ~from_value.is_null
    /\ FromKind = "ARRAY"
    /\ ToKind = "ARRAY"
    /\ ~Equals(from_value.type, to_type)

\* what element i of the source array becomes
ElementResult(i) ==
    IF from_value.payload[i].is_null
    THEN Ok(Null(element_type(to_type)), <<>>)
    ELSE CastValue(Ctx, from_value.payload[i], element_type(to_type))

FailingElements ==
    {i \in 1..Len(from_value.payload) : ElementResult(i).st # "OK"}

Lowest(S) == CHOOSE i \in S : \A j \in S : i <= j

\* C11: the cast of a non-NULL array first validates the coercion of the
\* array types and fails with the validation's error before any element
\* is cast; then it fails with the error of the first failing element, in
\* index order; otherwise it returns an array of the target type with as
\* many elements, element i being NULL of the target element type for a
\* NULL source element and the cast of source element i otherwise.
C11_ArrayCast ==
    ArrayCast
        => LET validated == ValidateCoercion(Ctx, from_value, to_type) IN
           IF validated.st # "OK"
           THEN /\ result.st = validated.st
                /\ result.msg = validated.msg
                /\ result.conv = <<>>
           ELSE IF FailingElements # {}
           THEN LET r == ElementResult(Lowest(FailingElements)) IN
                /\ result.st = r.st
                /\ result.msg = r.msg
           ELSE /\ result.st = "OK"
                /\ result.val.type = to_type
                /\ ~result.val.is_null
                /\ Len(result.val.payload) = Len(from_value.payload)
                /\ \A i \in 1..Len(from_value.payload) :
                       SameValue(result.val.payload[i], ElementResult(i).val)

C11_Witness ==
    /\ ArrayCast
    /\ from_value.type = ArrayType(Int32T)
    /\ to_type = ArrayType(Int64T)
    /\ from_value.payload = <<Null(Int32T), MakeValue(Int32T, -1)>>
    /\ result.st = "OK"
    /\ result.val.payload = <<Null(Int64T), MakeValue(Int64T, -1)>>

\* a non-NULL struct cast to a struct type with as many fields
StructCast ==
    /\ Returned
    /\ ~from_value.is_null
    /\ FromKind = "STRUCT"
    /\ ToKind = "STRUCT"
    /\ num_fields(from_value.type) = num_fields(to_type)

\* what the cast of field i of the source struct to the type of field i of
\* the target gives
FieldResult(i) == CastValue(Ctx, from_value.payload[i], to_type.fields[i])

FailingFields ==
    {i \in 1..num_fields(to_type) : FieldResult(i).st # "OK"}

\* C12: the cast of a non-NULL struct to a struct type of the same arity
\* returns the struct of the target type whose field i is the cast of
\* source field i to the type of target field i; when a field cast fails
\* it returns the error of the failing field of lowest index and no value.
C12_StructCast ==
    StructCast
        => IF FailingFields # {}
           THEN LET r == FieldResult(Lowest(FailingFields)) IN
                /\ result.st = r.st
                /\ result.msg = r.msg
                /\ SameValue(result.val, NoValue)
           ELSE /\ result.st = "OK"
                /\ result.val.type = to_type
                /\ ~result.val.is_null
                /\ Len(result.val.payload) = num_fields(to_type)
                /\ \A i \in 1..num_fields(to_type) :
                       SameValue(result.val.payload[i], FieldResult(i).val)

C12_Witness ==
    /\ StructCast
    /\ from_value.type = StructOf("a", 2)
    /\ to_type = StructOf("b", 2)
    /\ from_value.payload = <<MakeValue(Int64T, 2), MakeValue(StringT, <<"2">>)>>
    /\ result.st = "OK"
    /\ result.val.payload = <<MakeValue(Int32T, 2), MakeValue(Int32T, 2)>>

\* the kinds a string is parsed to
ParsedKinds ==
    (IntegerKinds \cup FloatingKinds \cup DecimalKinds \cup TemporalKinds)
        \cup {"BOOL", "ENUM", "PROTO"}

\* a non-NULL STRING cast to a type of a parsed kind has failed
FailedStringParse ==
    /\ Returned
    /\ ~from_value.is_null
    /\ FromKind = "STRING"
    /\ ToKind \in ParsedKinds
    /\ result.st # "OK"

\* C13: a failed parse of a non-NULL STRING is an evaluation error whose
\* message carries the offending literal cut to MAX_LITERAL_DISPLAY_LENGTH,
\* so what the message takes from the input is never longer than that.
C13_BoundedParseErrorText ==
    FailedStringParse
        => /\ result.st = "EVAL_ERROR"
           /\ result.msg.str =
                  PrettyTruncateUTF8(from_value.payload,
                                     MAX_LITERAL_DISPLAY_LENGTH)
           /\ Len(result.msg.str) <= MAX_LITERAL_DISPLAY_LENGTH

\* C14: the four predicates on the class of a cast: implicit only for
\* IMPLICIT; literal exactly for IMPLICIT, EXPLICIT_OR_LITERAL and
\* EXPLICIT_OR_LITERAL_OR_PARAMETER; parameter exactly for IMPLICIT and
\* EXPLICIT_OR_LITERAL_OR_PARAMETER; explicit for all four; hence implicit
\* implies parameter implies literal implies explicit.
C14_CastClassPredicates ==
    supports.called
        => /\ supports.implicit <=> supports.cast_type = "IMPLICIT"
           /\ supports.literal <=>
                  supports.cast_type \in
                      {"IMPLICIT", "EXPLICIT_OR_LITERAL",
                       "EXPLICIT_OR_LITERAL_OR_PARAMETER"}
           /\ supports.parameter <=>
                  supports.cast_type \in
                      {"IMPLICIT", "EXPLICIT_OR_LITERAL_OR_PARAMETER"}
           /\ supports.explicit
           /\ supports.implicit => supports.parameter
           /\ supports.parameter => supports.literal
           /\ supports.literal => supports.explicit

\* the predicates were evaluated on a class open to literals only, after a
\* lookup that found an entry of that class
C14_Witness ==
    /\ supports.called
    /\ supports.cast_type = "EXPLICIT_OR_LITERAL"
    /\ supports.literal /\ supports.explicit
    /\ ~supports.parameter /\ ~supports.implicit
    /\ lookup.found
    /\ lookup.cast_type = "EXPLICIT_OR_LITERAL"

\* C15: every type kind K has an entry (K, K) in the cast table and that
\* entry is IMPLICIT; in particular the source kind and the target kind of
\* every entry have their identity entries.
C15_IdentityEntries ==
    /\ (lookup.called /\ lookup.from_kind = lookup.to_kind)
           => (lookup.found /\ lookup.cast_type = "IMPLICIT")
    /\ (lookup.called /\ lookup.found)
           => /\ <<lookup.from_kind, lookup.from_kind, "IMPLICIT">>
                    \in GetZetaSQLCasts
              /\ <<lookup.to_kind, lookup.to_kind, "IMPLICIT">>
                    \in GetZetaSQLCasts

\* the threads that hold a reference returned by GetZetaSQLCasts
Callers == {t \in DOMAIN threads : threads[t].ref # 0}

\* what holds in every state of the threads calling GetZetaSQLCasts
OneTable ==
    /\ init_calls <= 1
    /\ Len(heap) = init_calls
    /\ \A t \in Callers :
          /\ init_calls = 1
          /\ guard = "done"
          /\ threads[t].ref = cast_hash_map
          /\ heap[threads[t].ref] = InitializeZetaSQLCasts
          /\ threads[t].pc = "read"
                 => threads[t].seen = InitializeZetaSQLCasts
    /\ \A t \in Callers, u \in Callers : threads[t].ref = threads[u].ref

\* once the static is initialized, it and the table it points to stay as
\* they are
TableFrozen ==
    guard = "done"
        => /\ guard' = "done"
           /\ cast_hash_map' = cast_hash_map
           /\ heap'[cast_hash_map] = heap[cast_hash_map]
           /\ init_calls' = init_calls

\* C16: under any interleaving of threads calling GetZetaSQLCasts,
\* InitializeZetaSQLCasts runs exactly once, every caller receives the same
\* table, no caller sees a partially populated table, and the table does
\* not change after its initialization.
C16_OneTimeInitialization == []OneTable /\ [][TableFrozen]_vars

\* two threads called concurrently, the second waited for the first's
\* initialization, and both have read the whole table
C16_Witness ==
    /\ DOMAIN threads = Threads
    /\ \A t \in Threads : threads[t].pc = "read"
    /\ \E t \in Threads : threads[t].waited
    /\ \E t \in Threads : ~threads[t].waited
    /\ \A t \in Threads : Cardinality(threads[t].seen) = Len(CastMapEntries)
    /\ init_calls = 1

\* a non-NULL value of an integer kind has been cast to STRING
IntegerToString ==
    /\ Returned
    /\ ~from_value.is_null
    /\ FromKind \in {"INT32", "INT64", "UINT32", "UINT64"}
    /\ ToKind = "STRING"

\* the cast of the string just produced back to the type it came from
CastBack == CastValue(Ctx, result.val, from_value.type)

\* C17: every value n of INT32, INT64, UINT32 or UINT64 casts to STRING
\* successfully, and that string casts back to the same type successfully
\* and gives n again.
C17_IntegerStringRoundTrip ==
    IntegerToString
        => /\ result.st = "OK"
           /\ result.val.type = StringT
           /\ ~result.val.is_null
           /\ CastBack.st = "OK"
           /\ SameValue(CastBack.val, from_value)

\* the least INT64 was cast to its decimal string, sign included
C17_Witness ==
    /\ IntegerToString
    /\ from_value.type = Int64T
    /\ from_value.payload = MinOf("INT64")
    /\ result.st = "OK"
    /\ result.val.payload = IntToString(MinOf("INT64"))
    /\ result.val.payload[1] = "-"
    /\ CastBack.val.payload = MinOf("INT64")

\* the entries of an alias that were pushed and not popped, oldest first
LiveOf(alias) ==
    LET ps == SelectSeq(live, LAMBDA p : p[1] = alias)
    IN  [i \in 1..Len(ps) |-> ps[i][2]]

LiveAliases == {live[i][1] : i \in DOMAIN live}

\* a reference has just been resolved
Referenced == last_ref.called

\* the live entry at position i of the push order belongs to a call that is
\* still in progress: a nullptr to the non-recursive term that pushed it, a
\* NamedSubquery to the WITH clause of a query not yet finished
Owned(i) ==
    LET alias == live[i][1]
        e == live[i][2]
        d == e.unique_alias[2]
    IN  IF e.null
        THEN \E f \in DOMAIN frames :
                 /\ frames[f].kind = "base"
                 /\ frames[f].alias = alias
                 /\ frames[f].pos = i
        ELSE /\ d \in DOMAIN frames
             /\ frames[d].kind = "query"
             /\ \/ alias \in Elems(frames[d].aliases)
                \/ /\ d + 1 \in DOMAIN frames
                   /\ frames[d + 1].kind = "term"
                   /\ frames[d + 1].alias = alias
                   /\ frames[d + 1].pos = i

\* the map holds, for every alias, exactly the entries pushed and not yet
\* popped, innermost last, and no alias without an entry
StackDiscipline ==
    /\ DOMAIN named_subquery_map_ = LiveAliases
    /\ \A alias \in DOMAIN named_subquery_map_ :
          /\ Len(named_subquery_map_[alias]) > 0
          /\ named_subquery_map_[alias] = LiveOf(alias)
    /\ \A i \in DOMAIN live : Owned(i)
    /\ Referenced
          => IF Len(LiveOf(last_ref.alias)) = 0
             THEN ~last_ref.found
             ELSE /\ last_ref.found
                  /\ last_ref.entry =
                         LiveOf(last_ref.alias)[Len(LiveOf(last_ref.alias))]

\* a step that removes entries of an alias removes its innermost ones and
\* leaves the outer ones as they were
PopsInnermost ==
    \A alias \in DOMAIN named_subquery_map_ :
        LET old == named_subquery_map_[alias]
            new == IF alias \in DOMAIN named_subquery_map_'
                   THEN named_subquery_map_'[alias] ELSE <<>>
        IN  Len(new) < Len(old) => new = SubSeq(old, 1, Len(new))

\* C20: a reference to an alias resolves to the entry of that alias pushed
\* last among those not yet popped; an entry pushed for an alias already
\* bound leaves the outer entry in place, which is visible again once the
\* inner one is popped; entries are removed innermost first when the query
\* that introduced them finishes; no alias is left with an empty list.
C20_WithAliasStack == []StackDiscipline /\ [][PopsInnermost]_vars

\* alias a is bound by an outer and by an inner WITH clause, and a
\* reference to a gives the inner entry while the outer one stays below it
C20_Witness ==
    /\ Referenced
    /\ last_ref.alias = "a"
    /\ last_ref.found
    /\ last_ref.entry = NamedSubquery("a", 2, FALSE)
    /\ named_subquery_map_["a"] =
           <<NamedSubquery("a", 1, FALSE), NamedSubquery("a", 2, FALSE)>>
    /\ with_status = "ok"

\* the non-recursive terms being resolved, as indices of frames
BaseTerms == {f \in DOMAIN frames : frames[f].kind = "base"}

\* the recursive terms being resolved
RecursiveTerms == {f \in DOMAIN frames : frames[f].kind = "term"}

\* the top of the stack of an alias
Innermost(alias) ==
    named_subquery_map_[alias][Len(named_subquery_map_[alias])]

\* an entry of the same alias was pushed inside the term of frame f
Shadowed(f) ==
    \E i \in DOMAIN live : i > frames[f].pos /\ live[i][1] = frames[f].alias

LastPushed(f) ==
    LiveOf(frames[f].alias)[Len(LiveOf(frames[f].alias))]

Disallowed(n) ==
    \/ n.node \in {"AggregateScan", "AnalyticScan", "LimitOffsetScan",
                   "SampleScan", "OrderByScan", "SubqueryExpr",
                   "FunctionArgument", "WithEntry"}
    \/ /\ n.node = "JoinScan"
       /\ \/ n.join_type = "LEFT" /\ ~n.left_operand
          \/ n.join_type = "RIGHT" /\ n.left_operand
          \/ n.join_type = "FULL"

\* a reference to the recursive query being validated was just visited
SelfReferenceVisited ==
    last_visited.called /\ last_visited.target = recursive_query_name_

\* C19: a reference to the recursive query is a static error exactly when it
\* is the second one or lies, at any depth, inside an aggregate, analytic,
\* LIMIT/OFFSET, sample or ORDER BY scan, a subquery expression, an argument
\* of a table function, an inner WITH entry, the right operand of a LEFT
\* JOIN, the left operand of a RIGHT JOIN or an operand of a FULL JOIN; so a
\* validation that succeeds has accepted at most one reference, and a
\* reference in the left operand of a LEFT JOIN, the right operand of a
\* RIGHT JOIN or an operand of an INNER JOIN is accepted.
C19_RecursiveTermValidation ==
    /\ SelfReferenceVisited
          => (validation.status = "error"
                 <=> \/ last_visited.earlier >= 1
                     \/ \E i \in DOMAIN last_visited.context :
                            Disallowed(last_visited.context[i]))
    /\ validation.references <= 1
    /\ validation.status = "error" => last_visited.called

\* a reference two levels below an aggregate scan was rejected, after none
\* had been seen
C19_Witness ==
    /\ SelfReferenceVisited
    /\ last_visited.earlier = 0
    /\ last_visited.context =
           <<Node("AggregateScan", "", FALSE), Node("JoinScan", "INNER", TRUE)>>
    /\ validation.status = "error"

\* CastValue was given a NULL of a type that differs from the target type
NullCastByCastValue ==
    /\ Returned
    /\ entry = "CastValue"
    /\ from_value.is_null
    /\ ~Equals(from_value.type, to_type)

\* the coercion validator accepts (source value, target type)
ValidatorAccepts == CoercesTo(catalog, from_value.type, to_type)

\* C24 as stated: a NULL of a non-simple type of the target's kind is
\* returned as NULL of the target only if the validator accepts, and when
\* the validator rejects the cast fails with "Unsupported cast"; a NULL of a
\* simple type, where the cast is a legal one, is returned as NULL of the
\* target.
C24_NullOfStructuredType_Original ==
    /\ (NullCastByCastValue /\ ~IsSimpleType(from_value.type)
            /\ FromKind = ToKind)
           => /\ result.st = "OK"
                  => (ValidatorAccepts /\ SameValue(result.val, Null(to_type)))
              /\ ~ValidatorAccepts
                  => (result.st = "SQL_ERROR" /\ result.msg = UnsupportedCast)
    /\ (NullCastByCastValue /\ IsSimpleType(from_value.type)
            /\ HasTableEntry /\ ~InvolvesExtendedType)
           => (result.st = "OK" /\ SameValue(result.val, Null(to_type)))

\* C24, amended: for a NULL of an ENUM, PROTO, ARRAY or STRUCT type cast to
\* a different type of the same kind, CastValue returns NULL of the target
\* exactly when the validator accepts and fails with "Unsupported cast"
\* otherwise; a NULL of a simple type cast to a type that is not extended
\* and whose kind the table pairs with it is returned as NULL of the target
\* whatever the validator would say; no conversion is invoked either way.
C24_NullOfStructuredType ==
    /\ (NullCastByCastValue /\ ~InvolvesExtendedType
            /\ ~IsSimpleType(from_value.type) /\ FromKind = ToKind)
           => /\ result.conv = <<>>
              /\ IF ValidatorAccepts
                 THEN /\ result.st = "OK"
                      /\ SameValue(result.val, Null(to_type))
                 ELSE /\ result.st = "SQL_ERROR"
                      /\ result.msg = UnsupportedCast
    /\ (NullCastByCastValue /\ ~InvolvesExtendedType
            /\ IsSimpleType(from_value.type) /\ HasTableEntry)
           => /\ result.st = "OK"
              /\ SameValue(result.val, Null(to_type))
              /\ result.conv = <<>>

\* a NULL of an enum type was refused for an enum type that is not
\* equivalent to it
C24_Witness ==
    /\ NullCastByCastValue
    /\ from_value.type = EnumE
    /\ to_type = EnumF
    /\ ~ValidatorAccepts
    /\ result.st = "SQL_ERROR"
    /\ result.msg = UnsupportedCast

\* the cast of a two-field struct to a map-entry proto type, by either entry
\* point
MapEntryCast ==
    /\ Returned
    /\ IsMapEntryCast(from_value.type, to_type)

\* the cast of field i (from 0) of the source struct to the type of field i
\* of the map-entry message, as the public CastValue performs it
MapFieldResult(i) ==
    CastValue(WithValidation(language_options, NoCatalog),
              from_value.payload[i + 1], to_type.fields[i + 1])

TemporalCaseTaken ==
    /\ Returned
    /\ ~from_value.is_null
    /\ <<FromKind, ToKind>> \in TemporalCases
    /\ result.conv # <<>>

\* the precision the conversion was run at ("none": it takes no precision)
PrecisionTaken == result.conv[1].scale

\* the precision the language options ask for
PrecisionOfOptions ==
    IF LanguageFeatureEnabled(language_options, "FEATURE_TIMESTAMP_NANOS")
    THEN "kNanoseconds"
    ELSE "kMicroseconds"

\* the conversion does not yield a value of the target type: the string
\* does not parse, or the temporal value is out of the target's range
OutOfRangeResult ==
    IF FromKind = "STRING"
    THEN ~LibStringToTemporal(ToKind, from_value.payload)
    ELSE /\ ~LibTemporalConverts(from_value.payload)
         /\ <<FromKind, ToKind>> # <<"DATE", "DATETIME">>

PrecisionFromOptions ==
    {<<"STRING", "TIMESTAMP">>, <<"TIMESTAMP", "STRING">>,
     <<"STRING", "TIME">>, <<"TIME", "STRING">>,
     <<"STRING", "DATETIME">>, <<"DATETIME", "STRING">>}

\* the conversions that are always run at microseconds
PrecisionFixed == {<<"DATE", "TIMESTAMP">>, <<"TIMESTAMP", "DATE">>}

RECURSIVE HasType(_, _)
HasType(v, t) ==
    /\ v.valid
    /\ v.type = t
    /\ (~v.is_null /\ t.kind = "STRUCT")
           => /\ Len(v.payload) = num_fields(t)
              /\ \A i \in 1..Len(v.payload) : HasType(v.payload[i], t.fields[i])
    /\ (~v.is_null /\ t.kind = "ARRAY")
           => \A i \in 1..Len(v.payload) :
                  HasType(v.payload[i], element_type(t))

\* a call on a valid value, with no extended type involved, succeeded
CastSucceeded ==
    /\ Returned
    /\ ~InvolvesExtendedType
    /\ result.st = "OK"

\* C29: whenever a cast that involves no extended type succeeds, through the
\* identity, NULL, map-entry or any dispatch path, the value returned has
\* the target type, down to the fields of a struct and the elements of an
\* array, and it is NULL only if the source value is NULL.
C29_ResultTyping ==
    CastSucceeded
        => /\ HasType(result.val, to_type)
           /\ result.val.is_null => from_value.is_null

\* a struct is cast to a struct type with other field types
C29_Witness ==
    /\ CastSucceeded
    /\ from_value.type = StructOf("a", 3)
    /\ to_type = StructOf("b", 3)
    /\ ~from_value.is_null
    /\ HasType(result.val, to_type)

\* internal::CastValueWithoutTypeValidation has returned, no extended type
\* being involved
UnvalidatedCall ==
    /\ Returned
    /\ entry = "CastValueWithoutTypeValidation"
    /\ ~InvolvesExtendedType

\* what CastValue returns for the same value, options and target type
ValidatedResult(cat) ==
    CastValue(WithValidation(language_options, cat), from_value, to_type)

SameOutcome(a, b) ==
    /\ a.st = b.st
    /\ a.msg = b.msg
    /\ a.st = "OK" => SameValue(a.val, b.val)

\* the value is a NULL of a non-simple type cast to another type of its kind
NullOfStructuredType ==
    /\ from_value.is_null
    /\ ~IsSimpleType(from_value.type)
    /\ FromKind = ToKind
    /\ ~Equals(from_value.type, to_type)

\* C30: with no extended type involved, whenever CastValue succeeds with a
\* result, CastValueWithoutTypeValidation succeeds with the same result; the
\* two differ only where the coercion validator rejects, for a NULL of a
\* structured type or for an array cast: there CastValue fails with the
\* SqlError "Unsupported cast", and the unvalidated cast goes on, returning
\* the NULL of the target type for the NULL.
C30_ValidatedVersusUnvalidated ==
    UnvalidatedCall
        => \A cat \in Catalogs :
             LET validated == ValidatedResult(cat) IN
             /\ validated.st = "OK"
                   => /\ result.st = "OK"
                      /\ SameValue(result.val, validated.val)
                      /\ result.conv = validated.conv
             /\ ~SameOutcome(validated, result)
                   => /\ validated.st = "SQL_ERROR"
                      /\ validated.msg = UnsupportedCast
                      /\ validated.conv = <<>>
                      /\ ~CoercesTo(cat, from_value.type, to_type)
                      /\ \/ /\ NullOfStructuredType
                            /\ result.st = "OK"
                            /\ SameValue(result.val, Null(to_type))
                         \/ ArrayCast

\* the empty ARRAY<DATE> cast to ARRAY<INT32>: rejected by the validator,
\* cast to the empty array without it
C30_Witness ==
    /\ UnvalidatedCall
    /\ from_value = MakeValue(ArrayType(DateT), <<>>)
    /\ to_type = ArrayType(Int32T)
    /\ ValidatedResult(NoCatalog).st = "SQL_ERROR"
    /\ result.st = "OK"
    /\ result.val = MakeValue(ArrayType(Int32T), <<>>)

\* the class the conversion of the last IsMatch call was made with
MatchedClass == last_match.this.property

\* C27: Conversion::IsMatch agrees with the predicates on the cast classes.
\* An invalid conversion matches no request; a valid one matches every
\* explicit request; it matches an implicit request exactly when
\* SupportsImplicitCoercion holds of its class, or the source is a literal
\* and SupportsLiteralCoercion holds, or the source is a parameter and
\* SupportsParameterCoercion holds.
C27_IsMatchAgreesWithPredicates ==
    last_match.called
        => /\ ~last_match.this.evaluator.valid => ~last_match.matched
           /\ (last_match.this.evaluator.valid /\ last_match.options.is_explicit)
                 => /\ last_match.matched
                    /\ SupportsExplicitCast(MatchedClass)
           /\ (last_match.this.evaluator.valid /\ ~last_match.options.is_explicit)
                 => (last_match.matched <=>
                        \/ SupportsImplicitCoercion(MatchedClass)
                        \/ /\ last_match.options.source_kind = "kLiteral"
                           /\ SupportsLiteralCoercion(MatchedClass)
                        \/ /\ last_match.options.source_kind = "kParameter"
                           /\ SupportsParameterCoercion(MatchedClass))

\* an implicit request for a parameter is refused by a conversion open to
\* literals only
C27_Witness ==
    /\ last_match.called
    /\ last_match.this.evaluator.valid
    /\ MatchedClass = "EXPLICIT_OR_LITERAL"
    /\ last_match.options = FindConversionOptions(FALSE, "kParameter")
    /\ ~last_match.matched

\* every evaluator object that is valid converts between two different
\* types with a function
ValidEvaluatorsConvert ==
    \A e \in {evaluator, conversion.evaluator} :
        e.valid => /\ e.from_type # NullType
                   /\ e.to_type # NullType
                   /\ e.function # NullFunction
                   /\ ~Equals(e.from_type, e.to_type)

\* the user conversion function was not invoked by the last Eval
FunctionNotInvoked == last_eval.result.conv = <<>>

\* C28: ConversionEvaluator::Create fails unless the source type, the target
\* type and the function are all present and the two types differ, so every
\* valid evaluator converts between two different types; Eval on an invalid
\* evaluator fails with FailedPrecondition, whatever the type of the value,
\* and Eval of a valid evaluator on a value of another type than its source
\* type fails with InvalidArgument; in both cases the user function is not
\* invoked.
C28_EvaluatorGuards ==
    /\ last_create.called
          => (last_create.ok <=>
                 /\ last_create.from_type # NullType
                 /\ last_create.to_type # NullType
                 /\ last_create.function # NullFunction
                 /\ ~Equals(last_create.from_type, last_create.to_type))
    /\ ValidEvaluatorsConvert
    /\ (last_eval.called /\ ~last_eval.this.valid)
          => /\ last_eval.result.st = "FAILED_PRECONDITION"
             /\ FunctionNotInvoked
    /\ (last_eval.called /\ last_eval.this.valid
         /\ ~Equals(last_eval.this.from_type, last_eval.from_value.type))
          => /\ last_eval.result.st = "INVALID_ARGUMENT"
             /\ FunctionNotInvoked
    /\ (last_eval.called /\ last_eval.this.valid
         /\ Equals(last_eval.this.from_type, last_eval.from_value.type))
          => ~FunctionNotInvoked

\* a valid evaluator from X is given a value of type Y
C28_Witness ==
    /\ last_eval.called
    /\ last_eval.this.valid
    /\ last_eval.this.from_type = ExtX
    /\ last_eval.from_value.type = ExtY
    /\ last_eval.result.st = "INVALID_ARGUMENT"
    /\ FunctionNotInvoked

\* the largest id AllocateColumnId has returned, 0 when it returned none
LargestAllocated ==
    IF allocated = <<>> THEN 0
    ELSE CHOOSE m \in Range(allocated) : \A x \in Range(allocated) : x <= m

\* C21: every call of AllocateColumnId returns an id strictly greater than
\* every id it returned before, so no id is handed out twice, and
\* max_column_id() is the largest id allocated so far.
C21_ColumnIds ==
    /\ \A i \in 1..Len(allocated) :
          \A j \in 1..Len(allocated) : i < j => allocated[i] < allocated[j]
    /\ max_column_id_ = LargestAllocated

\* two ids were allocated, with a number taken by another resolver in
\* between
C21_Witness ==
    /\ Len(allocated) = 2
    /\ allocated[1] + 1 < allocated[2]
    /\ max_column_id_ = allocated[2]
    /\ column_id_sequence = allocated[2]

\* the accesses recorded for a column, as calls of RecordColumnAccess
RecordedFor(column) == {e[2] : e \in {x \in recorded : x[1] = column}}

\* the pruning of the column lists has run
Pruned == phase \in {"pruned", "stamped"}

\* C22: with pruning enabled, after PruneColumnLists the column list of every
\* scan holds exactly the columns it was built with for which an access was
\* recorded, so every column a ResolvedColumnRef made by MakeColumnRef names
\* is still in the list of its scan; and the access kept for a column is the
\* bitwise OR of the accesses recorded for it: READ if it was only read,
\* READ and WRITE if it was read and written.
C22_ColumnPruning ==
    /\ (options_.prune_unused_columns /\ Pruned)
          => /\ \A i \in 1..Len(scans) :
                    scans[i].column_list =
                        {c \in scans[i].original : RecordedFor(c) # {}}
             /\ \A c \in column_refs :
                    \E i \in 1..Len(scans) : c \in scans[i].column_list
    /\ \A c \in ScanColumns :
          LET access == AccessOf(referenced_column_access_, c) IN
          /\ access % 2 = 1 <=> READ \in RecordedFor(c)
          /\ access \div 2 = 1 <=> WRITE \in RecordedFor(c)

\* a scan of three columns of which one is read and written: the two others
\* are pruned, and the access list says READ_WRITE
C22_Witness ==
    /\ options_.prune_unused_columns
    /\ phase = "stamped"
    /\ scans[1].original = {1, 2, 3}
    /\ scans[1].column_list = {1}
    /\ column_refs = {1}
    /\ RecordedFor(1) = {READ, WRITE}
    /\ column_access_list = <<READ_WRITE>>

\* a step adds to the tree or records a column access
TreeStep ==
    \/ scans' # scans /\ Len(scans') > Len(scans)
    \/ column_refs' # column_refs
    \/ recorded' # recorded
    \/ referenced_column_access_' # referenced_column_access_
    \/ allocated' # allocated

\* a step changes the column list of a scan
PruneStep ==
    \E i \in 1..Len(scans) :
        /\ i <= Len(scans')
        /\ scans'[i].column_list # scans[i].column_list

\* a step fills the access list of the statement
StampStep == column_access_list' # column_access_list \/
             (phase' = "stamped" /\ phase # "stamped")

====
